---- MODULE Spec2Model ----
(***************************************************************************)
(* The two engines of the student task scheduler (streamlit_app).          *)
(*                                                                         *)
(* Reminder Scheduler: the reminders table of db.py, the host operations   *)
(* that write it (create_task, update_task, delete_task), and the          *)
(* background loop of scheduler.py with its start / update_config / stop   *)
(* interface.  Time is an integer clock; timestamps (remind_at, now) are   *)
(* points of that clock and NoDue stands for due_datetime = None.          *)
(*                                                                         *)
(* Pomodoro timer: the configuration and state of pomodoro.py, the ticker  *)
(* loop calling _tick_once once a second, the host's operations on the     *)
(* timer and on the ticker thread, and the pomodoro_sessions table.  A     *)
(* call is one step; where the ticker thread and the host meet on the      *)
(* session state, _tick_once is followed line by line.                     *)
(***************************************************************************)
EXTENDS Integers, Sequences, FiniteSets, TLC

\* ---------------------------------------------------------------- bounds
MaxTasks == 2
MaxDue == 2
MaxOffset == 1
MaxThreads == 2
MaxFailures == 2
MaxSessions == 2
MaxFocus == 4
MaxInterval == 4
MaxMinutes == 2
MaxCallers == 2

\* ------------------------------------------------------ program constants
MinPoll == 5
DefaultInterval == 60
LongInterval == MinPoll + 1

SecondsPerMinute == 60
PartialMinimum == 60

NoDue == 0
NoThread == 0
NoTask == 0
NoStart == -1
NoHolder == 0
\* a task id that is not a number: int() raises on it
NonNumeric == -1

DueTimes == 1..MaxDue
DueArgs == {NoDue} \cup DueTimes
MaxTime == MaxDue + MaxOffset
Offsets == (0 - MaxOffset)..MaxOffset
\* interval_seconds as callers pass it: negative, zero, below the floor, above it
IntervalArgs == {-1, 0, 1, LongInterval}

Max(a, b) == IF a >= b THEN a ELSE b

VARIABLES
    tasks,                  \* ids of the rows of table tasks
    nextTaskId,             \* AUTOINCREMENT of tasks.id
    reminders,              \* rows of table reminders: [id, task_id, remind_at, sent]
    nextReminderId,         \* AUTOINCREMENT of reminders.id
    now,                    \* the local wall clock, datetime.now()
    tzOffset,               \* local time minus UTC, fixed for the process
    schedulerThread,        \* _scheduler_thread: NoThread or a thread id
    stopEvent,              \* _stop_event
    intervalSeconds,        \* _interval_seconds
    notificationsEnabled,   \* _notifications_enabled
    schedulerLock,          \* _scheduler_lock: "free", "start" inside start_scheduler_once,
                            \* "stop" while stop_scheduler joins
    threads,                \* every ReminderScheduler thread ever started, by id
    notified,               \* reminder ids the Notifier was invoked for
    renotified,             \* reminder ids the Notifier was invoked for more than once
    silenced,               \* reminder ids marked sent by an iteration with do_notify false
    replaced,               \* an upsert has rewritten a task's unsent reminder in place
    reconfigured,           \* a start call found the loop running and only set the config
    failures,               \* store / notifier / log calls that have raised so far
    stoppedIdle,            \* a stop call found no live thread behind the handle
    pomodoro_config,        \* st.session_state["pomodoro_config"]: PomodoroConfig
    pomodoro_state,         \* st.session_state["pomodoro_state"]: PomodoroState
    sessions,               \* rows of table pomodoro_sessions, oldest first
    tickers,                \* every PomodoroTicker thread ever started, by id
    tickerThread,           \* _ticker_thread: NoThread or a thread id
    tickerStop,             \* _ticker_stop
    tickerLock,             \* _ticker_lock: "free", or "stop" while stop_ticker joins
    modeRejected,           \* a switch_mode call has returned at line 264
    configLock,             \* _config_lock: NoHolder, or the thread that holds it
    callers                 \* host threads inside a call of scheduler.py, by id

dbVars == <<tasks, nextTaskId, reminders, nextReminderId>>
schedVars == <<schedulerThread, stopEvent, intervalSeconds, notificationsEnabled, schedulerLock>>
vars == <<tasks, nextTaskId, reminders, nextReminderId, now, tzOffset,
          schedulerThread, stopEvent, intervalSeconds, notificationsEnabled,
          schedulerLock, threads, notified, renotified, silenced, replaced,
          reconfigured, failures, stoppedIdle,
          pomodoro_config, pomodoro_state, sessions,
          tickers, tickerThread, tickerStop, tickerLock, modeRejected,
          configLock, callers>>
tickerVars == <<tickers, tickerThread, tickerStop, tickerLock>>
timerVars == <<pomodoro_config, pomodoro_state, sessions, tickerVars, modeRejected>>
lockVars == <<configLock, callers>>
coreVars == <<tasks, nextTaskId, reminders, nextReminderId, now, tzOffset,
              schedulerThread, stopEvent, intervalSeconds, notificationsEnabled,
              schedulerLock, threads, notified, renotified, silenced, replaced,
              reconfigured, failures, stoppedIdle, configLock, callers>>
\* What the Notifier and the calls have done so far: written by the step that does
\* it, read by no operation.
obsVars == <<notified, renotified, silenced, replaced, reconfigured>>

\* ------------------------------------------------------------------- db.py

Row(id, task_id, remind_at) ==
    [id |-> id, task_id |-> task_id, remind_at |-> remind_at, sent |-> FALSE]

\* The upsert without its SELECT: it inserts a row at every call.
UpsertAlwaysInserts(rems, nid, task_id, due_iso) ==
    IF due_iso = NoDue
    THEN [reminders |-> rems, nextId |-> nid]
    ELSE [reminders |-> rems \cup {Row(nid, task_id, due_iso)}, nextId |-> nid + 1]

\* The upsert that removes the task's reminders when the due time is cleared.
UpsertClearsReminder(rems, nid, task_id, due_iso) ==
    IF due_iso = NoDue
    THEN [reminders |-> {r \in rems : r.task_id # task_id}, nextId |-> nid]
    ELSE LET mine == {r \in rems : r.task_id = task_id} IN
         IF mine # {}
         THEN LET existing == CHOOSE r \in mine : \A q \in mine : r.id <= q.id IN
              [reminders |-> (rems \ {existing}) \cup
                             {[existing EXCEPT !.remind_at = due_iso, !.sent = FALSE]},
               nextId |-> nid]
         ELSE [reminders |-> rems \cup {Row(nid, task_id, due_iso)},
               nextId |-> nid + 1]

\* _upsert_initial_reminder: the task's reminder with the lowest id is rewritten
\* (remind_at = due, sent = 0) whatever its sent flag; a row is inserted only
\* when the task has no reminder at all.  Gives the table and the id counter.
UpsertInitialReminder(rems, nid, task_id, due_iso) ==
    IF due_iso = NoDue
    THEN [reminders |-> rems, nextId |-> nid]
    ELSE LET mine == {r \in rems : r.task_id = task_id} IN
         IF mine # {}
         THEN LET existing == CHOOSE r \in mine : \A q \in mine : r.id <= q.id IN
              [reminders |-> (rems \ {existing}) \cup
                             {[existing EXCEPT !.remind_at = due_iso, !.sent = FALSE]},
               nextId |-> nid]
         ELSE [reminders |-> rems \cup {Row(nid, task_id, due_iso)},
               nextId |-> nid + 1]

\* An upsert with this due time finds an unsent reminder of the task to rewrite.
HasUnsent(rems, task_id, due_iso) ==
    due_iso # NoDue /\ \E r \in rems : r.task_id = task_id /\ ~r.sent

\* create_task: a new tasks row (ids are never reused), then the upsert.
CreateTask(due) ==
    /\ nextTaskId <= MaxTasks
    /\ LET up == UpsertInitialReminder(reminders, nextReminderId, nextTaskId, due) IN
       /\ reminders' = up.reminders
       /\ nextReminderId' = up.nextId
    /\ tasks' = tasks \cup {nextTaskId}
    /\ nextTaskId' = nextTaskId + 1
    /\ replaced' = (replaced \/ HasUnsent(reminders, nextTaskId, due))
    /\ UNCHANGED <<now, tzOffset, schedVars, threads, notified, renotified, silenced,
                   reconfigured, failures>>
    /\ UNCHANGED <<stoppedIdle, timerVars, lockVars>>

\* update_task of an existing task: the tasks row is rewritten, then the upsert.
UpdateTask(task_id, due) ==
    /\ task_id \in tasks
    /\ LET up == UpsertInitialReminder(reminders, nextReminderId, task_id, due) IN
       /\ reminders' = up.reminders
       /\ nextReminderId' = up.nextId
    /\ replaced' = (replaced \/ HasUnsent(reminders, task_id, due))
    /\ UNCHANGED <<tasks, nextTaskId, now, tzOffset, schedVars, threads,
                   notified, renotified, silenced, reconfigured, failures>>
    /\ UNCHANGED <<stoppedIdle, timerVars, lockVars>>

\* delete_task: ON DELETE CASCADE removes the task's reminders.
DeleteTask(task_id) ==
    /\ task_id \in tasks
    /\ tasks' = tasks \ {task_id}
    /\ reminders' = {r \in reminders : r.task_id # task_id}
    /\ UNCHANGED <<nextTaskId, nextReminderId, now, tzOffset, schedVars, threads,
                   obsVars, failures>>
    /\ UNCHANGED <<stoppedIdle, timerVars, lockVars>>

\* SQLite's datetime(x, 'localtime') reads x as UTC and shifts it to local time.
LocalTime(t) == t + tzOffset

\* WHERE r.sent = 0 AND datetime(r.remind_at) <= datetime(now_iso, 'localtime')
DueRows(rems, now_iso) ==
    {r \in rems : ~r.sent /\ r.remind_at <= LocalTime(now_iso)}

\* What the scheduler keeps of a fetched row.
Fetched(r) == [id |-> r.id, remind_at |-> r.remind_at]

\* The lookup without its ORDER BY: the due rows in any order.
GetDueUnordered(rems, now_iso) ==
    LET D == {Fetched(r) : r \in DueRows(rems, now_iso)}
        n == Cardinality(D)
    IN  {s \in [1..n -> D] : \A i, j \in 1..n : i # j => s[i] # s[j]}

\* get_due_unsent_reminders: the due rows ORDER BY remind_at ASC; rows with equal
\* remind_at come in either order.
GetDueUnsentReminders(rems, now_iso) ==
    LET D == {Fetched(r) : r \in DueRows(rems, now_iso)}
        n == Cardinality(D)
    IN  {s \in [1..n -> D] :
            /\ \A i, j \in 1..n : i # j => s[i] # s[j]
            /\ \A i, j \in 1..n : i < j => s[i].remind_at <= s[j].remind_at}

\* mark_reminder_sent whose UPDATE matches no row.
MarkReminderSentLost(rems, reminder_id) == rems

\* mark_reminder_sent: UPDATE reminders SET sent = 1 WHERE id = ?
MarkReminderSent(rems, reminder_id) ==
    {IF r.id = reminder_id THEN [r EXCEPT !.sent = TRUE] ELSE r : r \in rems}

\* The clock advances.
Tick ==
    /\ now < MaxTime
    /\ now' = now + 1
    /\ UNCHANGED <<dbVars, tzOffset, schedVars, threads, obsVars, failures>>
    /\ UNCHANGED <<stoppedIdle, timerVars, lockVars>>

\* ------------------------------------------------------------ scheduler.py

\* A call into the store, the notifier or the log raises.
CanFail == failures < MaxFailures

\* A thread object: where _loop stands and its locals (due, do_notify, the wait's
\* timeout), and whether an exception is propagating out of the except clause.
\* Locals that are dead at a point of the loop are kept at their defaults.
NewThread ==
    [pc |-> "begin", due |-> <<>>, do_notify |-> FALSE, timeout |-> 0, raising |-> FALSE]

ThreadIds == 1..Len(threads)
IsAlive(t) == t \in ThreadIds /\ threads[t].pc # "dead"
LiveLoops == {t \in ThreadIds : threads[t].pc # "dead"}

\* Points of an iteration at which the thread is inside a call to the store, the
\* notifier or the log (a locked database alone holds a call for 5 seconds).
BlockingPcs == {"fetch", "for", "mark", "except"}

\* The wait without the floor: timeout=int(interval).
SleepNoFloor(interval) == interval

\* line 45: max(5, int(interval))
SleepTimeout(interval) == Max(MinPoll, interval)

\* update_scheduler_config's assignments, under _config_lock.
ConfigAfter(hasInterval, interval_seconds, hasNotif, notifications_enabled) ==
    [interval |-> IF hasInterval THEN interval_seconds ELSE intervalSeconds,
     notify |-> IF hasNotif THEN notifications_enabled ELSE notificationsEnabled]

\* update_scheduler_config(interval_seconds?, notifications_enabled?); it takes
\* _config_lock only, so it runs whoever holds _scheduler_lock.
UpdateSchedulerConfig(hasInterval, interval_seconds, hasNotif, notifications_enabled) ==
    LET c == ConfigAfter(hasInterval, interval_seconds, hasNotif, notifications_enabled) IN
    /\ intervalSeconds' = c.interval
    /\ notificationsEnabled' = c.notify
    /\ UNCHANGED <<dbVars, now, tzOffset, schedulerThread, stopEvent, schedulerLock,
                   threads, obsVars, failures>>
    /\ UNCHANGED <<stoppedIdle, timerVars, lockVars>>

\* start_scheduler_once without the is_alive test: it starts a thread at every call.
StartAlwaysSpawns(interval_seconds, notifications_enabled) ==
    /\ schedulerLock = "free"
    /\ intervalSeconds' = interval_seconds
    /\ notificationsEnabled' = notifications_enabled
    /\ Len(threads) < MaxThreads
    /\ stopEvent' = FALSE
    /\ threads' = Append(threads, NewThread)
    /\ schedulerThread' = Len(threads) + 1
    /\ UNCHANGED <<dbVars, now, tzOffset, schedulerLock, obsVars, failures>>
    /\ UNCHANGED <<stoppedIdle, timerVars, lockVars>>

\* start_scheduler_once, under _scheduler_lock: with a live thread behind the
\* handle it only updates the configuration; otherwise it sets the configuration,
\* clears the stop event and starts a new thread.
StartSchedulerOnce(interval_seconds, notifications_enabled) ==
    /\ schedulerLock = "free"
    /\ intervalSeconds' = interval_seconds
    /\ notificationsEnabled' = notifications_enabled
    /\ IF schedulerThread # NoThread /\ IsAlive(schedulerThread)
       THEN /\ reconfigured' = TRUE
            /\ UNCHANGED <<schedulerThread, stopEvent, threads>>
       ELSE /\ Len(threads) < MaxThreads
            /\ stopEvent' = FALSE
            /\ threads' = Append(threads, NewThread)
            /\ schedulerThread' = Len(threads) + 1
            /\ UNCHANGED reconfigured
    /\ UNCHANGED <<dbVars, now, tzOffset, schedulerLock, notified, renotified, silenced,
                   replaced, failures>>
    /\ UNCHANGED <<stoppedIdle, timerVars, lockVars>>

\* stop_scheduler that signals and drops the handle whatever the handle holds.
StopAlwaysSignals ==
    /\ schedulerLock = "free"
    /\ stopEvent' = TRUE
    /\ schedulerThread' = NoThread
    /\ stoppedIdle' = (stoppedIdle \/ ~(schedulerThread # NoThread /\ IsAlive(schedulerThread)))
    /\ UNCHANGED <<dbVars, now, tzOffset, schedulerLock, intervalSeconds,
                   notificationsEnabled, threads, obsVars, failures, timerVars, lockVars>>

\* stop_scheduler up to the join: with a live thread behind the handle it sets the
\* stop event and waits in join(timeout=5) holding _scheduler_lock; otherwise it
\* does nothing.
StopScheduler ==
    /\ schedulerLock = "free"
    /\ IF schedulerThread # NoThread /\ IsAlive(schedulerThread)
       THEN /\ stopEvent' = TRUE
            /\ schedulerLock' = "stop"
            /\ UNCHANGED stoppedIdle
       ELSE /\ stoppedIdle' = TRUE
            /\ UNCHANGED <<stopEvent, schedulerLock>>
    /\ UNCHANGED <<dbVars, now, tzOffset, schedulerThread, intervalSeconds,
                   notificationsEnabled, threads, obsVars, failures, timerVars, lockVars>>

\* The join returns: the thread has exited, or the 5 seconds ran out with the
\* thread still inside a call of its iteration; the handle is dropped either way.
StopSchedulerJoined ==
    /\ schedulerLock = "stop"
    /\ \/ ~IsAlive(schedulerThread)
       \/ IsAlive(schedulerThread) /\ threads[schedulerThread].pc \in BlockingPcs
    /\ schedulerThread' = NoThread
    /\ schedulerLock' = "free"
    /\ UNCHANGED <<dbVars, now, tzOffset, stopEvent, intervalSeconds,
                   notificationsEnabled, threads, obsVars, failures>>
    /\ UNCHANGED <<stoppedIdle, timerVars, lockVars>>

\* ------------------------------------------------------ scheduler.py: _loop

\* line 20, log("Scheduler loop started."), outside the try: if it raises the
\* thread ends before its first iteration.
LoopBegin(t) ==
    /\ threads[t].pc = "begin"
    /\ \/ /\ threads' = [threads EXCEPT ![t].pc = "top"]
          /\ UNCHANGED failures
       \/ /\ CanFail
          /\ threads' = [threads EXCEPT ![t].pc = "dead"]
          /\ failures' = failures + 1
    /\ UNCHANGED <<dbVars, now, tzOffset, schedVars, obsVars>>
    /\ UNCHANGED <<stoppedIdle, timerVars, lockVars>>

\* line 21, while not _stop_event.is_set(); line 46 when it is set.
LoopTop(t) ==
    /\ threads[t].pc = "top"
    /\ threads' = [threads EXCEPT ![t].pc = IF stopEvent THEN "dead" ELSE "fetch"]
    /\ UNCHANGED <<dbVars, now, tzOffset, schedVars, obsVars, failures>>
    /\ UNCHANGED <<stoppedIdle, timerVars, lockVars>>

\* lines 23-27: now_iso, the lookup and log("Found ..."); the lookup, or the log
\* of a non-empty result, may raise.
LoopFetch(t) ==
    /\ threads[t].pc = "fetch"
    /\ \/ /\ \E due \in GetDueUnsentReminders(reminders, now) :
                threads' = [threads EXCEPT ![t].pc = "config", ![t].due = due]
          /\ UNCHANGED failures
       \/ /\ CanFail
          /\ threads' = [threads EXCEPT ![t].pc = "except"]
          /\ failures' = failures + 1
    /\ UNCHANGED <<dbVars, now, tzOffset, schedVars, obsVars>>
    /\ UNCHANGED <<stoppedIdle, timerVars, lockVars>>

\* lines 28-30, under _config_lock: do_notify = _notifications_enabled; then the
\* for loop is entered, or left at once when nothing is due.
LoopConfig(t) ==
    /\ threads[t].pc = "config"
    /\ threads' = [threads EXCEPT
                     ![t].do_notify = notificationsEnabled,
                     ![t].pc = IF threads[t].due = <<>> THEN "finally" ELSE "for"]
    /\ UNCHANGED <<dbVars, now, tzOffset, schedVars, obsVars, failures>>
    /\ UNCHANGED <<stoppedIdle, timerVars, lockVars>>

\* The Notifier's record after one more invocation for reminder id.
Invoked(id) ==
    /\ notified' = notified \cup {id}
    /\ renotified' = IF id \in notified THEN renotified \cup {id} ELSE renotified

\* lines 33-37: notify_placeholder is invoked for the reminder at the head of due;
\* it returns, or it raises (its fallback toast is outside its try).
LoopNotify(t) ==
    /\ threads[t].pc = "for"
    /\ threads[t].do_notify
    /\ Invoked(Head(threads[t].due).id)
    /\ \/ /\ threads' = [threads EXCEPT ![t].pc = "mark"]
          /\ UNCHANGED failures
       \/ /\ CanFail
          /\ threads' = [threads EXCEPT ![t].pc = "except", ![t].due = <<>>,
                                        ![t].do_notify = FALSE]
          /\ failures' = failures + 1
    /\ UNCHANGED <<dbVars, now, tzOffset, schedVars, silenced, replaced, reconfigured>>
    /\ UNCHANGED <<stoppedIdle, timerVars, lockVars>>

\* line 38: db.mark_reminder_sent for the head of due, reached after the notify
\* or directly when do_notify is false; then the next reminder, or the end of
\* the try block.
LoopMark(t) ==
    /\ \/ threads[t].pc = "mark"
       \/ threads[t].pc = "for" /\ ~threads[t].do_notify
    /\ \/ /\ reminders' = MarkReminderSent(reminders, Head(threads[t].due).id)
          /\ threads' = [threads EXCEPT
                           ![t].due = Tail(threads[t].due),
                           ![t].pc = IF Tail(threads[t].due) = <<>> THEN "finally" ELSE "for"]
          /\ silenced' = IF threads[t].do_notify THEN silenced
                          ELSE silenced \cup {Head(threads[t].due).id}
          /\ UNCHANGED failures
       \/ /\ CanFail
          /\ threads' = [threads EXCEPT ![t].pc = "except", ![t].due = <<>>,
                                        ![t].do_notify = FALSE]
          /\ failures' = failures + 1
          /\ UNCHANGED <<reminders, silenced>>
    /\ UNCHANGED <<tasks, nextTaskId, nextReminderId, now, tzOffset, schedVars,
                   notified, renotified, replaced, reconfigured>>
    /\ UNCHANGED <<stoppedIdle, timerVars, lockVars>>

\* lines 39-40: except Exception: log(...).  If the log raises, the exception
\* leaves the except clause: the finally block still runs, then the thread ends.
LoopExcept(t) ==
    /\ threads[t].pc = "except"
    /\ \/ /\ threads' = [threads EXCEPT ![t].pc = "finally"]
          /\ UNCHANGED failures
       \/ /\ CanFail
          /\ threads' = [threads EXCEPT ![t].pc = "finally", ![t].raising = TRUE]
          /\ failures' = failures + 1
    /\ UNCHANGED <<dbVars, now, tzOffset, schedVars, obsVars>>
    /\ UNCHANGED <<stoppedIdle, timerVars, lockVars>>

\* lines 41-45: finally: interval = _interval_seconds under _config_lock, then
\* _stop_event.wait(timeout=max(5, int(interval))) begins.
LoopFinally(t) ==
    /\ threads[t].pc = "finally"
    /\ threads' = [threads EXCEPT ![t].pc = "sleep", ![t].due = <<>>,
                                  ![t].do_notify = FALSE,
                                  ![t].timeout = SleepTimeout(intervalSeconds)]
    /\ UNCHANGED <<dbVars, now, tzOffset, schedVars, obsVars, failures>>
    /\ UNCHANGED <<stoppedIdle, timerVars, lockVars>>

\* line 45: _stop_event.wait(timeout) returns: at once when the event is set,
\* otherwise when the timeout it was given has run out, and on nothing else.
\* Then back to the while test, or out of _loop with the pending exception.
LoopWake(t) ==
    /\ threads[t].pc = "sleep"
    /\ threads' = [threads EXCEPT ![t].pc = IF threads[t].raising THEN "dead" ELSE "top",
                                  ![t].timeout = 0, ![t].raising = FALSE]
    /\ UNCHANGED <<dbVars, now, tzOffset, schedVars, obsVars, failures>>
    /\ UNCHANGED <<stoppedIdle, timerVars, lockVars>>

\* ------------------------------------------- scheduler.py: the two locks
\* start_scheduler_once, update_scheduler_config and stop_scheduler followed
\* from lock to lock, as called by the host threads 1..MaxCallers (Streamlit runs
\* each session's script in a thread of its own), and _loop taking _config_lock
\* at lines 28 and 43.

Callers == 1..MaxCallers

\* The loop thread t as a holder of _config_lock.
LoopHolder(t) == MaxCallers + t

\* A host thread outside scheduler.py.  Inside a call it keeps the arguments of
\* the call, where it stands, and whether update_scheduler_config was entered
\* from start_scheduler_once; duringStop records that its last update took
\* _config_lock while stop_scheduler was waiting in join.
IdleCaller ==
    [pc |-> "idle", nested |-> FALSE, hasInterval |-> FALSE, interval_seconds |-> 0,
     hasNotif |-> FALSE, notifications_enabled |-> FALSE, duringStop |-> FALSE]

\* Nobody holds _config_lock and no host thread is inside scheduler.py.
LockIdle ==
    /\ configLock = NoHolder
    /\ callers = [c \in Callers |-> IdleCaller]

\* line 50: a host thread calls start_scheduler_once and reaches line 53.
StartSchedulerOnceCall(c, interval_seconds, notifications_enabled) ==
    /\ callers[c].pc = "idle"
    /\ callers' = [callers EXCEPT ![c] =
          [IdleCaller EXCEPT !.pc = "start_lock",
                             !.hasInterval = TRUE, !.interval_seconds = interval_seconds,
                             !.hasNotif = TRUE, !.notifications_enabled = notifications_enabled,
                             !.duringStop = callers[c].duringStop]]
    /\ UNCHANGED <<dbVars, now, tzOffset, schedVars, threads, obsVars, failures,
                   stoppedIdle, timerVars, configLock>>

\* lines 53-54: _scheduler_lock is taken; with a live thread behind the handle
\* the call goes into update_scheduler_config (line 56), otherwise on to line 59.
StartSchedulerOnceLocked(c) ==
    /\ callers[c].pc = "start_lock"
    /\ schedulerLock = "free"
    /\ schedulerLock' = "start"
    /\ callers' = [callers EXCEPT
          ![c].pc = IF schedulerThread # NoThread /\ IsAlive(schedulerThread)
                    THEN "config_lock" ELSE "spawn",
          ![c].nested = (schedulerThread # NoThread /\ IsAlive(schedulerThread))]
    /\ UNCHANGED <<dbVars, now, tzOffset, schedulerThread, stopEvent, intervalSeconds,
                   notificationsEnabled, threads, obsVars, failures, stoppedIdle,
                   timerVars, configLock>>

\* lines 59-64: the configuration is assigned (without _config_lock), the stop
\* event cleared and a new thread started; _scheduler_lock is released.
StartSchedulerOnceSpawn(c) ==
    /\ callers[c].pc = "spawn"
    /\ Len(threads) < MaxThreads
    /\ intervalSeconds' = callers[c].interval_seconds
    /\ notificationsEnabled' = callers[c].notifications_enabled
    /\ stopEvent' = FALSE
    /\ threads' = Append(threads, NewThread)
    /\ schedulerThread' = Len(threads) + 1
    /\ schedulerLock' = "free"
    /\ callers' = [callers EXCEPT ![c] = [IdleCaller EXCEPT !.duringStop = callers[c].duringStop]]
    /\ UNCHANGED <<dbVars, now, tzOffset, obsVars, failures, stoppedIdle, timerVars,
                   configLock>>

\* line 68: a host thread calls update_scheduler_config and reaches line 71.
UpdateSchedulerConfigCall(c, hasInterval, interval_seconds, hasNotif, notifications_enabled) ==
    /\ callers[c].pc = "idle"
    /\ callers' = [callers EXCEPT ![c] =
          [IdleCaller EXCEPT !.pc = "config_lock",
                             !.hasInterval = hasInterval, !.interval_seconds = interval_seconds,
                             !.hasNotif = hasNotif, !.notifications_enabled = notifications_enabled]]
    /\ UNCHANGED <<dbVars, now, tzOffset, schedVars, threads, obsVars, failures,
                   stoppedIdle, timerVars, configLock>>

\* update_scheduler_config that takes _config_lock only when _scheduler_lock is free.
UpdateLockedUnderStartStop(c) ==
    /\ callers[c].pc = "config_lock"
    /\ callers[c].nested \/ schedulerLock = "free"
    /\ configLock = NoHolder
    /\ configLock' = c
    /\ callers' = [callers EXCEPT ![c].pc = "config_write",
                                  ![c].duringStop = (schedulerLock = "stop")]
    /\ UNCHANGED <<dbVars, now, tzOffset, schedVars, threads, obsVars, failures,
                   stoppedIdle, timerVars>>

\* line 71: with _config_lock, entered.
UpdateSchedulerConfigLocked(c) ==
    /\ callers[c].pc = "config_lock"
    /\ configLock = NoHolder
    /\ configLock' = c
    /\ callers' = [callers EXCEPT ![c].pc = "config_write",
                                  ![c].duringStop = (schedulerLock = "stop")]
    /\ UNCHANGED <<dbVars, now, tzOffset, schedVars, threads, obsVars, failures,
                   stoppedIdle, timerVars>>

\* update_scheduler_config that takes _scheduler_lock before it leaves the block
\* of _config_lock.
UpdateWriteThenStartStop(c) ==
    /\ callers[c].pc = "config_write"
    /\ configLock = c
    /\ callers[c].nested \/ schedulerLock = "free"
    /\ LET a == callers[c]
           cfg == ConfigAfter(a.hasInterval, a.interval_seconds,
                              a.hasNotif, a.notifications_enabled) IN
       /\ intervalSeconds' = cfg.interval
       /\ notificationsEnabled' = cfg.notify
    /\ configLock' = NoHolder
    /\ IF callers[c].nested
       THEN schedulerLock' = "free" /\ reconfigured' = TRUE
       ELSE UNCHANGED <<schedulerLock, reconfigured>>
    /\ callers' = [callers EXCEPT ![c] = [IdleCaller EXCEPT !.duringStop = callers[c].duringStop]]
    /\ UNCHANGED <<dbVars, now, tzOffset, schedulerThread, stopEvent, threads, notified,
                   renotified, silenced, replaced, failures, stoppedIdle, timerVars>>

\* lines 72-76: the assignments, the end of the with block and the log; a call
\* entered from start_scheduler_once returns there (line 57), which releases
\* _scheduler_lock.
UpdateSchedulerConfigWrite(c) ==
    /\ callers[c].pc = "config_write"
    /\ configLock = c
    /\ LET a == callers[c]
           cfg == ConfigAfter(a.hasInterval, a.interval_seconds,
                              a.hasNotif, a.notifications_enabled) IN
       /\ intervalSeconds' = cfg.interval
       /\ notificationsEnabled' = cfg.notify
    /\ configLock' = NoHolder
    /\ IF callers[c].nested
       THEN schedulerLock' = "free" /\ reconfigured' = TRUE
       ELSE UNCHANGED <<schedulerLock, reconfigured>>
    /\ callers' = [callers EXCEPT ![c] = [IdleCaller EXCEPT !.duringStop = callers[c].duringStop]]
    /\ UNCHANGED <<dbVars, now, tzOffset, schedulerThread, stopEvent, threads, notified,
                   renotified, silenced, replaced, failures, stoppedIdle, timerVars>>

\* line 80: a host thread calls stop_scheduler and reaches line 83.
StopSchedulerCall(c) ==
    /\ callers[c].pc = "idle"
    /\ callers' = [callers EXCEPT ![c] =
          [IdleCaller EXCEPT !.pc = "stop_lock", !.duringStop = callers[c].duringStop]]
    /\ UNCHANGED <<dbVars, now, tzOffset, schedVars, threads, obsVars, failures,
                   stoppedIdle, timerVars, configLock>>

\* lines 83-86: _scheduler_lock is taken; with a live thread behind the handle
\* the stop event is set and the call waits in join(timeout=5), otherwise the
\* lock is released at once.
StopSchedulerLocked(c) ==
    /\ callers[c].pc = "stop_lock"
    /\ schedulerLock = "free"
    /\ IF schedulerThread # NoThread /\ IsAlive(schedulerThread)
       THEN /\ stopEvent' = TRUE
            /\ schedulerLock' = "stop"
            /\ callers' = [callers EXCEPT ![c].pc = "join"]
            /\ UNCHANGED stoppedIdle
       ELSE /\ stoppedIdle' = TRUE
            /\ callers' = [callers EXCEPT ![c].pc = "idle"]
            /\ UNCHANGED <<stopEvent, schedulerLock>>
    /\ UNCHANGED <<dbVars, now, tzOffset, schedulerThread, intervalSeconds,
                   notificationsEnabled, threads, obsVars, failures, timerVars, configLock>>

\* lines 86-88: the join returns (the thread has exited, or the 5 seconds ran
\* out with the thread inside a call of its iteration), the handle is dropped
\* and _scheduler_lock released.
StopSchedulerJoinReturns(c) ==
    /\ callers[c].pc = "join"
    /\ \/ ~IsAlive(schedulerThread)
       \/ IsAlive(schedulerThread) /\ threads[schedulerThread].pc \in BlockingPcs
    /\ schedulerThread' = NoThread
    /\ schedulerLock' = "free"
    /\ callers' = [callers EXCEPT ![c].pc = "idle"]
    /\ UNCHANGED <<dbVars, now, tzOffset, stopEvent, intervalSeconds,
                   notificationsEnabled, threads, obsVars, failures, stoppedIdle,
                   timerVars, configLock>>

\* _loop that reads the configuration without _config_lock.
LoopLockSkipped(t) ==
    /\ threads[t].pc \in {"config", "finally"}
    /\ configLock' = LoopHolder(t)
    /\ UNCHANGED <<dbVars, now, tzOffset, schedVars, threads, obsVars, failures,
                   stoppedIdle, timerVars, callers>>

\* lines 28 and 43: with _config_lock, entered by the loop thread.
LoopLock(t) ==
    /\ threads[t].pc \in {"config", "finally"}
    /\ configLock = NoHolder
    /\ configLock' = LoopHolder(t)
    /\ UNCHANGED <<dbVars, now, tzOffset, schedVars, threads, obsVars, failures,
                   stoppedIdle, timerVars, callers>>

\* lines 29-30 and the end of the with block, then the for loop as in LoopConfig.
LoopConfigLocked(t) ==
    /\ threads[t].pc = "config"
    /\ configLock = LoopHolder(t)
    /\ threads' = [threads EXCEPT
                     ![t].do_notify = notificationsEnabled,
                     ![t].pc = IF threads[t].due = <<>> THEN "finally" ELSE "for"]
    /\ configLock' = NoHolder
    /\ UNCHANGED <<dbVars, now, tzOffset, schedVars, obsVars, failures,
                   stoppedIdle, timerVars, callers>>

\* line 44 and the end of the with block, then the wait begins as in LoopFinally.
LoopFinallyLocked(t) ==
    /\ threads[t].pc = "finally"
    /\ configLock = LoopHolder(t)
    /\ threads' = [threads EXCEPT ![t].pc = "sleep", ![t].due = <<>>,
                                  ![t].do_notify = FALSE,
                                  ![t].timeout = SleepTimeout(intervalSeconds)]
    /\ configLock' = NoHolder
    /\ UNCHANGED <<dbVars, now, tzOffset, schedVars, obsVars, failures,
                   stoppedIdle, timerVars, callers>>

\* ------------------------------------------------------------- pomodoro.py
\* The timer of one session.  current_session_start is kept as the age of the
\* open interval in seconds, elapsed = _now() - current_session_start, and as
\* NoStart when it is None.  A session row keeps the task, the duration and the
\* mode named in its note.

Modes == {"focus", "short_break", "long_break"}

\* PomodoroConfig(focus_minutes, short_break_minutes, long_break_minutes,
\* long_break_interval)
PomodoroConfig(focus, short, long, interval) ==
    [focus_minutes |-> focus, short_break_minutes |-> short,
     long_break_minutes |-> long, long_break_interval |-> interval]

\* PomodoroState as _ensure_session_state creates it.
PomodoroState(cfg) ==
    [mode |-> "focus", time_left_sec |-> cfg.focus_minutes * SecondsPerMinute,
     cycle_count |-> 0, total_focus_completed |-> 0, is_running |-> FALSE,
     bound_task_id |-> NoTask, elapsed |-> NoStart]

\* The full length of a mode, as reset_timer, switch_mode and apply_config set it.
FullDuration(cfg, mode) ==
    IF mode = "focus" THEN cfg.focus_minutes * SecondsPerMinute
    ELSE IF mode = "short_break" THEN cfg.short_break_minutes * SecondsPerMinute
    ELSE cfg.long_break_minutes * SecondsPerMinute

\* apply_config that resets the time budget of a running timer too.
ApplyAlwaysResets(focus, short, long, interval, state) ==
    LET cfg == PomodoroConfig(Max(1, focus), Max(1, short), Max(1, long), Max(1, interval)) IN
    [cfg |-> cfg, state |-> [state EXCEPT !.time_left_sec = FullDuration(cfg, state.mode)]]

\* apply_config without the clamp.
ApplyNoClamp(focus, short, long, interval, state) ==
    LET cfg == PomodoroConfig(focus, short, long, interval) IN
    [cfg |-> cfg,
     state |-> IF ~state.is_running
               THEN [state EXCEPT !.time_left_sec = FullDuration(cfg, state.mode)]
               ELSE state]

\* apply_config's clamp and its reset of the time budget of an idle timer.
ApplyConfigState(focus, short, long, interval, state) ==
    LET cfg == PomodoroConfig(Max(1, focus), Max(1, short), Max(1, long), Max(1, interval)) IN
    [cfg |-> cfg,
     state |-> IF ~state.is_running
               THEN [state EXCEPT !.time_left_sec = FullDuration(cfg, state.mode)]
               ELSE state]

\* _transition_to_next that leaves a break for the short break.
TransitionNeverFocus(cfg, state) ==
    IF state.mode = "focus"
    THEN LET counted == [state EXCEPT !.total_focus_completed = @ + 1, !.cycle_count = @ + 1] IN
         IF cfg.long_break_interval > 0 /\ counted.cycle_count % cfg.long_break_interval = 0
         THEN [counted EXCEPT !.mode = "long_break",
                              !.time_left_sec = Max(1, cfg.long_break_minutes * SecondsPerMinute)]
         ELSE [counted EXCEPT !.mode = "short_break",
                              !.time_left_sec = Max(1, cfg.short_break_minutes * SecondsPerMinute)]
    ELSE [state EXCEPT !.mode = "short_break",
                       !.time_left_sec = Max(1, cfg.short_break_minutes * SecondsPerMinute)]

\* _transition_to_next that never takes the long break.
TransitionAlwaysShort(cfg, state) ==
    IF state.mode = "focus"
    THEN [state EXCEPT !.total_focus_completed = @ + 1, !.cycle_count = @ + 1,
                       !.mode = "short_break",
                       !.time_left_sec = Max(1, cfg.short_break_minutes * SecondsPerMinute)]
    ELSE [state EXCEPT !.mode = "focus",
                       !.time_left_sec = Max(1, cfg.focus_minutes * SecondsPerMinute)]

\* _transition_to_next that starts a new set at each long break.
TransitionResetsSet(cfg, state) ==
    IF state.mode = "focus"
    THEN LET counted == [state EXCEPT !.total_focus_completed = @ + 1, !.cycle_count = @ + 1] IN
         IF cfg.long_break_interval > 0 /\ counted.cycle_count % cfg.long_break_interval = 0
         THEN [counted EXCEPT !.mode = "long_break", !.cycle_count = 0,
                              !.time_left_sec = Max(1, cfg.long_break_minutes * SecondsPerMinute)]
         ELSE [counted EXCEPT !.mode = "short_break",
                              !.time_left_sec = Max(1, cfg.short_break_minutes * SecondsPerMinute)]
    ELSE [state EXCEPT !.mode = "focus",
                       !.time_left_sec = Max(1, cfg.focus_minutes * SecondsPerMinute)]

\* _transition_to_next that leaves time_left_sec as the tick left it.
TransitionKeepsTime(cfg, state) ==
    IF state.mode = "focus"
    THEN LET counted == [state EXCEPT !.total_focus_completed = @ + 1, !.cycle_count = @ + 1] IN
         IF cfg.long_break_interval > 0 /\ counted.cycle_count % cfg.long_break_interval = 0
         THEN [counted EXCEPT !.mode = "long_break"]
         ELSE [counted EXCEPT !.mode = "short_break"]
    ELSE [state EXCEPT !.mode = "focus"]

\* _transition_to_next
TransitionToNext(cfg, state) ==
    IF state.mode = "focus"
    THEN LET counted == [state EXCEPT !.total_focus_completed = @ + 1, !.cycle_count = @ + 1] IN
         IF cfg.long_break_interval > 0 /\ counted.cycle_count % cfg.long_break_interval = 0
         THEN [counted EXCEPT !.mode = "long_break",
                              !.time_left_sec = Max(1, cfg.long_break_minutes * SecondsPerMinute)]
         ELSE [counted EXCEPT !.mode = "short_break",
                              !.time_left_sec = Max(1, cfg.short_break_minutes * SecondsPerMinute)]
    ELSE [state EXCEPT !.mode = "focus",
                       !.time_left_sec = Max(1, cfg.focus_minutes * SecondsPerMinute)]

\* _persist_session that overwrites the newest row.
PersistReplacesLast(log, task_id, duration_minutes, notes) ==
    LET row == [task_id |-> task_id, duration_minutes |-> duration_minutes, notes |-> notes] IN
    IF log = <<>> THEN <<row>> ELSE [log EXCEPT ![Len(log)] = row]

\* _persist_session: one row appended to pomodoro_sessions.
PersistSession(log, task_id, duration_minutes, notes) ==
    Append(log, [task_id |-> task_id, duration_minutes |-> duration_minutes, notes |-> notes])

\* The duration written without the floor of one minute.
DurationNoFloor(elapsed) == elapsed \div SecondsPerMinute

\* line 113: max(1, int((end - start).total_seconds() // 60))
DurationMinutes(elapsed) == Max(1, elapsed \div SecondsPerMinute)

\* _complete_current_interval_and_log: nothing without an open interval; otherwise
\* the row is written and the interval closed.  Gives the state and the table.
CompleteCurrentIntervalAndLog(state, log) ==
    IF state.elapsed = NoStart
    THEN [state |-> state, sessions |-> log]
    ELSE [state |-> [state EXCEPT !.elapsed = NoStart],
          sessions |-> PersistSession(log, state.bound_task_id,
                                      DurationMinutes(state.elapsed), state.mode)]

\* A transition that leaves no interval open.
StartNoIntervalClock(state) == state

\* _start_new_interval_clock: current_session_start = _now()
StartNewIntervalClock(state) == [state EXCEPT !.elapsed = 0]

\* _tick_once that does not look at is_running.
TickIgnoresRunning(cfg, state, log) ==
    IF state.time_left_sec > 0
    THEN LET dec == [state EXCEPT !.time_left_sec = @ - 1] IN
         IF dec.time_left_sec = 0
         THEN LET done == CompleteCurrentIntervalAndLog(dec, log) IN
              [state |-> StartNewIntervalClock(TransitionToNext(cfg, done.state)),
               sessions |-> done.sessions]
         ELSE [state |-> dec, sessions |-> log]
    ELSE [state |-> [state EXCEPT !.time_left_sec = 0], sessions |-> log]

\* _tick_once on (cfg, state, log): the state and the table after the call.
TickResult(cfg, state, log) ==
    IF ~state.is_running
    THEN [state |-> state, sessions |-> log]
    ELSE IF state.time_left_sec > 0
    THEN LET dec == [state EXCEPT !.time_left_sec = @ - 1] IN
         IF dec.time_left_sec = 0
         THEN LET done == CompleteCurrentIntervalAndLog(dec, log) IN
              [state |-> StartNewIntervalClock(TransitionToNext(cfg, done.state)),
               sessions |-> done.sessions]
         ELSE [state |-> dec, sessions |-> log]
    ELSE [state |-> [state EXCEPT !.time_left_sec = 0], sessions |-> log]

\* The PomodoroTicker threads ever started, each by its place in _ticker_loop:
\* "top" (the first while test), "tick" (in _tick_once), "wait" (in
\* _ticker_stop.wait), "dead"; and, where _tick_once is followed line by line,
\* "decrement", "complete", "transition" and "clock".
TickerIds == 1..Len(tickers)
LiveTickers == {k \in TickerIds : tickers[k] # "dead"}

\* _ticker_thread and _ticker_thread.is_alive()
TickerAlive == tickerThread # NoThread /\ tickers[tickerThread] # "dead"

\* line 157 on entry: while not _ticker_stop.is_set()
TickerTop(k) ==
    /\ tickers[k] = "top"
    /\ tickers' = [tickers EXCEPT ![k] = IF tickerStop THEN "dead" ELSE "tick"]
    /\ UNCHANGED <<coreVars, pomodoro_config, pomodoro_state, sessions,
                   tickerThread, tickerStop, tickerLock, modeRejected>>

\* One call of _tick_once by the ticker loop (lines 158-162), as one step.
TickOnce(k) ==
    /\ tickers[k] = "tick"
    /\ LET r == TickResult(pomodoro_config, pomodoro_state, sessions) IN
       /\ pomodoro_state' = r.state
       /\ sessions' = r.sessions
    /\ tickers' = [tickers EXCEPT ![k] = "wait"]
    /\ UNCHANGED <<coreVars, pomodoro_config, tickerThread, tickerStop, tickerLock,
                   modeRejected>>

\* _tick_once line by line.  Lines 130-132: the session objects are fetched and
\* is_running is read.
TickCheck(k) ==
    /\ tickers[k] = "tick"
    /\ tickers' = [tickers EXCEPT ![k] = IF pomodoro_state.is_running
                                         THEN "decrement" ELSE "wait"]
    /\ UNCHANGED <<coreVars, pomodoro_config, pomodoro_state, sessions,
                   tickerThread, tickerStop, tickerLock, modeRejected>>

\* lines 134-136 and 150-152: the second is taken off and the result compared with 0.
TickDecrement(k) ==
    /\ tickers[k] = "decrement"
    /\ IF pomodoro_state.time_left_sec > 0
       THEN /\ pomodoro_state' = [pomodoro_state EXCEPT !.time_left_sec = @ - 1]
            /\ tickers' = [tickers EXCEPT ![k] = IF pomodoro_state'.time_left_sec = 0
                                                 THEN "complete" ELSE "wait"]
       ELSE /\ pomodoro_state' = [pomodoro_state EXCEPT !.time_left_sec = 0]
            /\ tickers' = [tickers EXCEPT ![k] = "wait"]
    /\ UNCHANGED <<coreVars, pomodoro_config, sessions, tickerThread, tickerStop,
                   tickerLock, modeRejected>>

\* line 139: _complete_current_interval_and_log(state)
TickComplete(k) ==
    /\ tickers[k] = "complete"
    /\ LET done == CompleteCurrentIntervalAndLog(pomodoro_state, sessions) IN
       /\ pomodoro_state' = done.state
       /\ sessions' = done.sessions
    /\ tickers' = [tickers EXCEPT ![k] = "transition"]
    /\ UNCHANGED <<coreVars, pomodoro_config, tickerThread, tickerStop, tickerLock,
                   modeRejected>>

\* lines 141-142: _transition_to_next(cfg, state)
TickTransition(k) ==
    /\ tickers[k] = "transition"
    /\ pomodoro_state' = TransitionToNext(pomodoro_config, pomodoro_state)
    /\ tickers' = [tickers EXCEPT ![k] = "clock"]
    /\ UNCHANGED <<coreVars, pomodoro_config, sessions, tickerThread, tickerStop,
                   tickerLock, modeRejected>>

\* line 144: _start_new_interval_clock(state); then back to the loop's wait.
TickClock(k) ==
    /\ tickers[k] = "clock"
    /\ pomodoro_state' = StartNewIntervalClock(pomodoro_state)
    /\ tickers' = [tickers EXCEPT ![k] = "wait"]
    /\ UNCHANGED <<coreVars, pomodoro_config, sessions, tickerThread, tickerStop,
                   tickerLock, modeRejected>>

\* lines 163-166 and 157: the waits of one second run out with the event not set,
\* and the while test lets the loops go on: one second has passed.
TickerWait ==
    /\ \E k \in TickerIds : tickers[k] = "wait"
    /\ ~tickerStop
    /\ pomodoro_state.elapsed < MaxMinutes * SecondsPerMinute
    /\ pomodoro_state' = [pomodoro_state EXCEPT
                            !.elapsed = IF @ = NoStart THEN NoStart ELSE @ + 1]
    /\ tickers' = [k \in TickerIds |-> IF tickers[k] = "wait" THEN "tick" ELSE tickers[k]]
    /\ UNCHANGED <<coreVars, pomodoro_config, sessions, tickerThread, tickerStop,
                   tickerLock, modeRejected>>

\* lines 165-166: the event is set, wait returns True and the loop breaks.
TickerStopped(k) ==
    /\ tickers[k] = "wait"
    /\ tickerStop
    /\ tickers' = [tickers EXCEPT ![k] = "dead"]
    /\ UNCHANGED <<coreVars, pomodoro_config, pomodoro_state, sessions,
                   tickerThread, tickerStop, tickerLock, modeRejected>>

\* The places of _tick_once where a thread can stay longer than the three seconds
\* of stop_ticker's join: the INSERT of _persist_session waiting for the database.
TickerBlockingPcs == {"complete"}

\* start_ticker_once on (tickers, handle, event): nothing when the handle names a
\* live thread; otherwise the event is cleared and a new thread started.
TickerStarted(all, handle, stop) ==
    IF handle # NoThread /\ all[handle] # "dead"
    THEN [tickers |-> all, tickerThread |-> handle, tickerStop |-> stop]
    ELSE [tickers |-> Append(all, "top"), tickerThread |-> Len(all) + 1,
          tickerStop |-> FALSE]

\* start_ticker_once
StartTickerOnce ==
    /\ tickerLock = "free"
    /\ TickerAlive \/ Len(tickers) < MaxThreads
    /\ LET r == TickerStarted(tickers, tickerThread, tickerStop) IN
       /\ tickers' = r.tickers
       /\ tickerThread' = r.tickerThread
       /\ tickerStop' = r.tickerStop
    /\ UNCHANGED <<coreVars, pomodoro_config, pomodoro_state, sessions, tickerLock,
                   modeRejected>>

\* stop_ticker up to the end of join(timeout=3): with a live thread behind the
\* handle the event is set and the caller waits, holding _ticker_lock.
StopTicker ==
    /\ tickerLock = "free"
    /\ IF TickerAlive
       THEN tickerStop' = TRUE /\ tickerLock' = "stop"
       ELSE UNCHANGED <<tickerStop, tickerLock>>
    /\ UNCHANGED <<coreVars, pomodoro_config, pomodoro_state, sessions, tickers,
                   tickerThread, modeRejected>>

\* stop_ticker from the return of join: the thread has exited, or the three seconds
\* have run out on a thread held up in _tick_once; the handle is dropped.
StopTickerJoined ==
    /\ tickerLock = "stop"
    /\ tickers[tickerThread] = "dead" \/ tickers[tickerThread] \in TickerBlockingPcs
    /\ tickerThread' = NoThread
    /\ tickerLock' = "free"
    /\ UNCHANGED <<coreVars, pomodoro_config, pomodoro_state, sessions, tickers,
                   tickerStop, modeRejected>>

\* int(bound_task_id) raises for NonNumeric.
IsNumeric(bound_task_id) == bound_task_id # NonNumeric

\* start_timer that opens a new interval at every start.
StartReopens(state, bound_task_id) ==
    IF ~state.is_running
    THEN LET open == StartNewIntervalClock([state EXCEPT !.is_running = TRUE])
         IN  IF bound_task_id # NoTask
             THEN [open EXCEPT !.bound_task_id = IF IsNumeric(bound_task_id)
                                                THEN bound_task_id ELSE NoTask]
             ELSE open
    ELSE state

\* lines 195-205 of start_timer on the state: an idle or paused timer runs, an
\* interval is opened when none is open, the task is bound (no task when int()
\* raises); a running timer is left as it is.
StartState(state, bound_task_id) ==
    IF ~state.is_running
    THEN LET run == [state EXCEPT !.is_running = TRUE]
             open == IF run.elapsed = NoStart THEN StartNewIntervalClock(run) ELSE run
         IN  IF bound_task_id # NoTask
             THEN [open EXCEPT !.bound_task_id = IF IsNumeric(bound_task_id)
                                                THEN bound_task_id ELSE NoTask]
             ELSE open
    ELSE state

\* start_timer(bound_task_id): the state is updated, then start_ticker_once.
StartTimer(bound_task_id) ==
    /\ pomodoro_state' = StartState(pomodoro_state, bound_task_id)
    /\ tickerLock = "free"
    /\ TickerAlive \/ Len(tickers) < MaxThreads
    /\ LET r == TickerStarted(tickers, tickerThread, tickerStop) IN
       /\ tickers' = r.tickers
       /\ tickerThread' = r.tickerThread
       /\ tickerStop' = r.tickerStop
    /\ UNCHANGED <<coreVars, pomodoro_config, sessions, tickerLock, modeRejected>>

\* pause_timer that also closes the open interval.
PauseClosesInterval(state) == [state EXCEPT !.is_running = FALSE, !.elapsed = NoStart]

\* pause_timer on the state
PauseResult(state) == [state EXCEPT !.is_running = FALSE]

\* pause_timer
PauseTimer ==
    /\ pomodoro_state' = PauseResult(pomodoro_state)
    /\ UNCHANGED <<coreVars, pomodoro_config, sessions, tickerVars, modeRejected>>

\* reset_timer that writes a row for every open interval.
ResetLogsAlways(cfg, state, log) ==
    LET stopped == [state EXCEPT !.is_running = FALSE]
        closed == CompleteCurrentIntervalAndLog(stopped, log)
    IN  [state |-> [closed.state EXCEPT !.time_left_sec = FullDuration(cfg, state.mode)],
         sessions |-> closed.sessions]

\* reset_timer that restores the focus length whatever the mode.
ResetToFocus(cfg, state, log) ==
    LET stopped == [state EXCEPT !.is_running = FALSE]
        closed == IF stopped.elapsed # NoStart /\ stopped.elapsed >= PartialMinimum
                  THEN CompleteCurrentIntervalAndLog(stopped, log)
                  ELSE [state |-> [stopped EXCEPT !.elapsed = NoStart], sessions |-> log]
    IN  [state |-> [closed.state EXCEPT !.time_left_sec = FullDuration(cfg, "focus")],
         sessions |-> closed.sessions]

\* reset_timer that leaves an interval of less than a minute open.
ResetKeepsInterval(cfg, state, log) ==
    LET stopped == [state EXCEPT !.is_running = FALSE]
        closed == IF stopped.elapsed # NoStart /\ stopped.elapsed >= PartialMinimum
                  THEN CompleteCurrentIntervalAndLog(stopped, log)
                  ELSE [state |-> stopped, sessions |-> log]
    IN  [state |-> [closed.state EXCEPT !.time_left_sec = FullDuration(cfg, state.mode)],
         sessions |-> closed.sessions]

\* reset_timer on (cfg, state, log): the state and the table after the call.
ResetResult(cfg, state, log) ==
    LET stopped == [state EXCEPT !.is_running = FALSE]
        closed == IF stopped.elapsed # NoStart
                  THEN IF stopped.elapsed >= PartialMinimum
                       THEN CompleteCurrentIntervalAndLog(stopped, log)
                       ELSE [state |-> [stopped EXCEPT !.elapsed = NoStart], sessions |-> log]
                  ELSE [state |-> stopped, sessions |-> log]
    IN  [state |-> [closed.state EXCEPT !.time_left_sec = FullDuration(cfg, state.mode)],
         sessions |-> closed.sessions]

\* reset_timer
ResetTimer ==
    /\ LET r == ResetResult(pomodoro_config, pomodoro_state, sessions) IN
       /\ pomodoro_state' = r.state
       /\ sessions' = r.sessions
    /\ UNCHANGED <<coreVars, pomodoro_config, tickerVars, modeRejected>>

\* apply_config(focus, short, long, interval)
ApplyConfig(focus, short, long, interval) ==
    /\ LET a == ApplyConfigState(focus, short, long, interval, pomodoro_state) IN
       /\ pomodoro_config' = a.cfg
       /\ pomodoro_state' = a.state
    /\ UNCHANGED <<coreVars, sessions, tickerVars, modeRejected>>

\* switch_mode without the test of line 263.
SwitchAnyMode(cfg, state, log, new_mode) ==
    LET stopped == [state EXCEPT !.is_running = FALSE]
        closed == IF stopped.elapsed # NoStart
                  THEN IF stopped.elapsed >= PartialMinimum
                       THEN CompleteCurrentIntervalAndLog(stopped, log)
                       ELSE [state |-> [stopped EXCEPT !.elapsed = NoStart], sessions |-> log]
                  ELSE [state |-> stopped, sessions |-> log]
    IN  [state |-> [closed.state EXCEPT !.mode = new_mode,
                                        !.time_left_sec = FullDuration(cfg, new_mode)],
         sessions |-> closed.sessions]

\* switch_mode that writes a row for every open interval.
SwitchLogsAlways(cfg, state, log, new_mode) ==
    IF new_mode \notin Modes
    THEN [state |-> state, sessions |-> log]
    ELSE LET stopped == [state EXCEPT !.is_running = FALSE]
             closed == CompleteCurrentIntervalAndLog(stopped, log)
         IN  [state |-> [closed.state EXCEPT !.mode = new_mode,
                                             !.time_left_sec = FullDuration(cfg, new_mode)],
              sessions |-> closed.sessions]

\* switch_mode on (cfg, state, log, new_mode): the state and the table after the call.
SwitchResult(cfg, state, log, new_mode) ==
    IF new_mode \notin Modes
    THEN [state |-> state, sessions |-> log]
    ELSE LET stopped == [state EXCEPT !.is_running = FALSE]
             closed == IF stopped.elapsed # NoStart
                       THEN IF stopped.elapsed >= PartialMinimum
                            THEN CompleteCurrentIntervalAndLog(stopped, log)
                            ELSE [state |-> [stopped EXCEPT !.elapsed = NoStart],
                                  sessions |-> log]
                       ELSE [state |-> stopped, sessions |-> log]
         IN  [state |-> [closed.state EXCEPT !.mode = new_mode,
                                             !.time_left_sec = FullDuration(cfg, new_mode)],
              sessions |-> closed.sessions]

\* switch_mode(new_mode)
SwitchMode(new_mode) ==
    /\ LET r == SwitchResult(pomodoro_config, pomodoro_state, sessions, new_mode) IN
       /\ pomodoro_state' = r.state
       /\ sessions' = r.sessions
    /\ modeRejected' = (modeRejected \/ new_mode \notin Modes)
    /\ UNCHANGED <<coreVars, pomodoro_config, tickerVars>>

\* The session before the timer is first used: default configuration and state,
\* no ticker.
TimerIdle ==
    /\ pomodoro_config = PomodoroConfig(25, 5, 15, 4)
    /\ pomodoro_state = PomodoroState(pomodoro_config)
    /\ sessions = <<>>
    /\ tickers = <<>>
    /\ tickerThread = NoThread
    /\ tickerStop = FALSE
    /\ tickerLock = "free"
    /\ modeRejected = FALSE

\* The session after apply_config(focus, short, long, interval) on the idle timer.
TimerConfigured(focus, short, long, interval) ==
    LET a == ApplyConfigState(focus, short, long, interval,
                              PomodoroState(PomodoroConfig(25, 5, 15, 4))) IN
    /\ pomodoro_config = a.cfg
    /\ pomodoro_state = a.state
    /\ sessions = <<>>
    /\ tickers = <<>>
    /\ tickerThread = NoThread
    /\ tickerStop = FALSE
    /\ tickerLock = "free"
    /\ modeRejected = FALSE

\* ---------------------------------------------------------- specifications

\* The process after import: nothing started, an empty database.
CoreInit ==
    /\ tasks = {}
    /\ nextTaskId = 1
    /\ reminders = {}
    /\ nextReminderId = 1
    /\ now = 0
    /\ tzOffset \in Offsets
    /\ schedulerThread = NoThread
    /\ stopEvent = FALSE
    /\ intervalSeconds = DefaultInterval
    /\ notificationsEnabled = TRUE
    /\ schedulerLock = "free"
    /\ threads = <<>>
    /\ notified = {}
    /\ renotified = {}
    /\ silenced = {}
    /\ replaced = FALSE
    /\ reconfigured = FALSE
    /\ failures = 0
    /\ stoppedIdle = FALSE
    /\ LockIdle

Init == CoreInit /\ TimerIdle

\* The process after app.py's main has run once: start_scheduler_once with the
\* default settings has started the loop.
BootInit ==
    /\ tasks = {}
    /\ nextTaskId = 1
    /\ reminders = {}
    /\ nextReminderId = 1
    /\ now = 0
    /\ tzOffset \in Offsets
    /\ schedulerThread = 1
    /\ stopEvent = FALSE
    /\ intervalSeconds = DefaultInterval
    /\ notificationsEnabled = TRUE
    /\ schedulerLock = "free"
    /\ threads = <<NewThread>>
    /\ notified = {}
    /\ renotified = {}
    /\ silenced = {}
    /\ replaced = FALSE
    /\ reconfigured = FALSE
    /\ failures = 0
    /\ stoppedIdle = FALSE
    /\ LockIdle
    /\ TimerIdle

HostStore ==
    \/ \E due \in DueArgs : CreateTask(due)
    \/ \E task_id \in 1..MaxTasks, due \in DueArgs : UpdateTask(task_id, due)
    \/ \E task_id \in 1..MaxTasks : DeleteTask(task_id)

Loops ==
    \/ \E t \in ThreadIds : LoopBegin(t)
    \/ \E t \in ThreadIds : LoopTop(t)
    \/ \E t \in ThreadIds : LoopFetch(t)
    \/ \E t \in ThreadIds : LoopConfig(t)
    \/ \E t \in ThreadIds : LoopNotify(t)
    \/ \E t \in ThreadIds : LoopMark(t)
    \/ \E t \in ThreadIds : LoopExcept(t)
    \/ \E t \in ThreadIds : LoopFinally(t)
    \/ \E t \in ThreadIds : LoopWake(t)

\* Reminder processing: the loop started at boot, the host's task operations
\* and the clock.
Next ==
    \/ HostStore
    \/ Tick
    \/ Loops

Spec == BootInit /\ [][Next]_vars

\* Reminder processing with the host switching notifications on and off.
ToggleNext ==
    \/ Next
    \/ \E n \in BOOLEAN : UpdateSchedulerConfig(FALSE, DefaultInterval, TRUE, n)

\* ... in a process whose local time is UTC.
ToggleInit == BootInit /\ tzOffset = 0

ToggleSpec == ToggleInit /\ [][ToggleNext]_vars

\* Reminder processing with the loop thread scheduled and the clock advancing:
\* a thread that can take a step of _loop eventually takes one.
FairSpec == Spec /\ WF_vars(Loops) /\ WF_vars(Tick)

\* Scheduler control: start, update_config and stop called in any order on a
\* process whose reminders table stays empty.
ControlNext ==
    \/ \E i \in IntervalArgs, n \in BOOLEAN : StartSchedulerOnce(i, n)
    \/ \E hasI \in BOOLEAN, i \in IntervalArgs, hasN \in BOOLEAN, n \in BOOLEAN :
           UpdateSchedulerConfig(hasI, i, hasN, n)
    \/ StopScheduler
    \/ StopSchedulerJoined
    \/ \E t \in ThreadIds : LoopBegin(t)
    \/ \E t \in ThreadIds : LoopTop(t)
    \/ \E t \in ThreadIds : LoopFetch(t)
    \/ \E t \in ThreadIds : LoopConfig(t)
    \/ \E t \in ThreadIds : LoopExcept(t)
    \/ \E t \in ThreadIds : LoopFinally(t)
    \/ \E t \in ThreadIds : LoopWake(t)

ControlSpec == Init /\ [][ControlNext]_vars

\* A step of _loop by thread t.
ThreadStep(t) ==
    /\ t \in ThreadIds
    /\ \/ LoopBegin(t) \/ LoopTop(t) \/ LoopFetch(t) \/ LoopConfig(t)
       \/ LoopExcept(t) \/ LoopFinally(t) \/ LoopWake(t)

\* Scheduler control with every started thread scheduled: a thread that can take
\* a step of _loop eventually takes one (calls return, waits end).
FairControlSpec == ControlSpec /\ \A t \in 1..MaxThreads : WF_vars(ThreadStep(t))

\* Scheduler control lock by lock: MaxCallers host threads call start, update_config
\* and stop in any order while the loop threads run, on a process whose reminders
\* table stays empty, whose local time is UTC and in which no call raises.
LockInit ==
    /\ tasks = {}
    /\ nextTaskId = 1
    /\ reminders = {}
    /\ nextReminderId = 1
    /\ now = 0
    /\ tzOffset = 0
    /\ schedulerThread = NoThread
    /\ stopEvent = FALSE
    /\ intervalSeconds = DefaultInterval
    /\ notificationsEnabled = TRUE
    /\ schedulerLock = "free"
    /\ threads = <<>>
    /\ notified = {}
    /\ renotified = {}
    /\ silenced = {}
    /\ replaced = FALSE
    /\ reconfigured = FALSE
    /\ failures = MaxFailures
    /\ stoppedIdle = FALSE
    /\ LockIdle
    /\ TimerIdle

\* A step of thread t of _loop.
LockLoopStep(t) ==
    \/ LoopBegin(t) \/ LoopTop(t) \/ LoopFetch(t) \/ LoopWake(t)
    \/ LoopLock(t) \/ LoopConfigLocked(t) \/ LoopFinallyLocked(t)

\* A step of host thread c inside its call.
CallerStep(c) ==
    \/ StartSchedulerOnceLocked(c)
    \/ StartSchedulerOnceSpawn(c)
    \/ UpdateSchedulerConfigLocked(c)
    \/ UpdateSchedulerConfigWrite(c)
    \/ StopSchedulerLocked(c)
    \/ StopSchedulerJoinReturns(c)

\* Host threads that will start a thread unless one is alive when they get the lock.
Starting == {c \in Callers : callers[c].pc \in {"start_lock", "spawn"}}

LockNext ==
    \/ \E c \in Callers :
          /\ Len(threads) + Cardinality(Starting) < MaxThreads
          /\ StartSchedulerOnceCall(c, LongInterval, TRUE)
    \/ \E c \in Callers, hasI \in BOOLEAN :
          UpdateSchedulerConfigCall(c, hasI, 1, TRUE, FALSE)
    \/ \E c \in Callers : StopSchedulerCall(c)
    \/ \E c \in Callers : StartSchedulerOnceLocked(c)
    \/ \E c \in Callers : StartSchedulerOnceSpawn(c)
    \/ \E c \in Callers : UpdateSchedulerConfigLocked(c)
    \/ \E c \in Callers : UpdateSchedulerConfigWrite(c)
    \/ \E c \in Callers : StopSchedulerLocked(c)
    \/ \E c \in Callers : StopSchedulerJoinReturns(c)
    \/ \E t \in ThreadIds : LoopBegin(t)
    \/ \E t \in ThreadIds : LoopTop(t)
    \/ \E t \in ThreadIds : LoopFetch(t)
    \/ \E t \in ThreadIds : LoopLock(t)
    \/ \E t \in ThreadIds : LoopConfigLocked(t)
    \/ \E t \in ThreadIds : LoopFinallyLocked(t)
    \/ \E t \in ThreadIds : LoopWake(t)

LockSpec == LockInit /\ [][LockNext]_vars

\* The timer left to itself: started once, then only the ticker runs, until
\* MaxFocus focus intervals have completed.
CycleInit ==
    /\ CoreInit
    /\ tzOffset = 0
    /\ \E interval \in 1..MaxInterval : TimerConfigured(1, 1, 1, interval)

CycleNext ==
    \/ StartTimer(NoTask)
    \/ \E k \in TickerIds : TickerTop(k)
    \/ \E k \in TickerIds : pomodoro_state.total_focus_completed < MaxFocus /\ TickOnce(k)
    \/ TickerWait

CycleSpec == CycleInit /\ [][CycleNext]_vars

\* A step of the ticker loop of the timer left to itself.
CycleTicks ==
    \/ \E k \in TickerIds : TickerTop(k)
    \/ \E k \in TickerIds : pomodoro_state.total_focus_completed < MaxFocus /\ TickOnce(k)
    \/ TickerWait

\* The timer left to itself with the ticker thread scheduled and the seconds
\* passing: ticks keep arriving.
FairCycleSpec == CycleSpec /\ WF_vars(CycleTicks)

\* The timer under the host's start, pause and reset, with at most MaxSessions
\* rows written.
TimerInit ==
    /\ CoreInit
    /\ tzOffset = 0
    /\ \E interval \in 1..2 : TimerConfigured(1, 1, 2, interval)

TimerNext ==
    \/ \E task_id \in {NoTask, 1, NonNumeric} : StartTimer(task_id)
    \/ PauseTimer
    \/ Len(sessions) < MaxSessions /\ ResetTimer
    \/ \E k \in TickerIds : TickerTop(k)
    \/ \E k \in TickerIds : Len(sessions) < MaxSessions /\ TickOnce(k)
    \/ TickerWait

TimerSpec == TimerInit /\ [][TimerNext]_vars

\* switch_mode as callers pass it: the three modes and a value that is none of them
SwitchArgs == Modes \cup {"siesta"}

\* The timer under all six host operations, with lengths of 1, 1 and 2 minutes, at
\* most MaxSessions rows written and no interval left open for more than a minute.
HostInit ==
    /\ CoreInit
    /\ tzOffset = 0
    /\ TimerConfigured(1, 1, 2, 1)

HostNext ==
    \/ StartTimer(NoTask)
    \/ PauseTimer
    \/ Len(sessions) < MaxSessions /\ ResetTimer
    \/ \E new_mode \in SwitchArgs : Len(sessions) < MaxSessions /\ SwitchMode(new_mode)
    \/ ApplyConfig(0, -1, 2, 1)
    \/ \E k \in TickerIds : TickerTop(k)
    \/ \E k \in TickerIds : Len(sessions) < MaxSessions /\ TickOnce(k)
    \/ pomodoro_state.elapsed < SecondsPerMinute /\ TickerWait

HostSpec == HostInit /\ [][HostNext]_vars

\* The minutes and the interval as callers pass them to apply_config: zero and
\* negative values next to a valid one.
FocusArgs == {0, 2}
BreakArgs == {-1}
LongIntervalArgs == {0, 2}

\* The timer under start, pause and apply_config, with at most MaxSessions rows
\* written and no interval left open for more than a minute.
ConfigInit ==
    /\ CoreInit
    /\ tzOffset = 0
    /\ TimerConfigured(1, 1, 1, 1)

ConfigNext ==
    \/ StartTimer(NoTask)
    \/ PauseTimer
    \/ \E focus \in FocusArgs, short \in BreakArgs, long \in BreakArgs,
          interval \in LongIntervalArgs : ApplyConfig(focus, short, long, interval)
    \/ \E k \in TickerIds : TickerTop(k)
    \/ \E k \in TickerIds : Len(sessions) < MaxSessions /\ TickOnce(k)
    \/ pomodoro_state.elapsed < SecondsPerMinute /\ TickerWait

ConfigSpec == ConfigInit /\ [][ConfigNext]_vars

\* The ticker thread and the host on the same session state: _tick_once line by
\* line between the host's start, pause and reset, with at most MaxSessions rows
\* written, MaxSessions intervals completed and no interval left open for more than
\* a minute.
RaceInit ==
    /\ CoreInit
    /\ tzOffset = 0
    /\ TimerConfigured(1, 1, 1, 1)

TickSteps ==
    \/ \E k \in TickerIds : TickerTop(k)
    \/ \E k \in TickerIds : TickCheck(k)
    \/ \E k \in TickerIds : TickDecrement(k)
    \/ \E k \in TickerIds : Len(sessions) < MaxSessions /\ TickComplete(k)
    \/ \E k \in TickerIds : pomodoro_state.cycle_count < MaxSessions /\ TickTransition(k)
    \/ \E k \in TickerIds : TickClock(k)

RaceNext ==
    \/ StartTimer(NoTask)
    \/ PauseTimer
    \/ Len(sessions) < MaxSessions /\ ResetTimer
    \/ TickSteps
    \/ pomodoro_state.elapsed < SecondsPerMinute /\ TickerWait

RaceSpec == RaceInit /\ [][RaceNext]_vars

\* Ticker control: start_timer, start_ticker_once and stop_ticker called in any
\* order, the ticker threads running _ticker_loop.
TickerNext ==
    \/ StartTimer(NoTask)
    \/ StartTickerOnce
    \/ StopTicker
    \/ StopTickerJoined
    \/ TickSteps
    \/ TickerWait
    \/ \E k \in TickerIds : TickerStopped(k)

TickerSpec == RaceInit /\ [][TickerNext]_vars

\* ------------------------------------------------------------------ claims

Running == schedulerThread # NoThread /\ IsAlive(schedulerThread)

\* C1: after any sequence of start, update_config and stop calls at most one
\* scheduler loop is running, also when stop's join timed out before a new start:
\* two threads are alive only while the stop event tells the older one to exit.
C1_AtMostOneLoop == stopEvent \/ Cardinality(LiveLoops) <= 1

\* C2: the Notifier is invoked at most once for each reminder, in every
\* execution, also when a notifier or store call of an iteration raises.
C2_NotifiedAtMostOnce == renotified = {}

\* The lookup of thread t returns in this step.
Fetches(t) == threads[t].pc = "fetch" /\ threads'[t].pc = "config"

\* C3: the lookup of an iteration takes up every unsent reminder whose remind_at is
\* at or before now (the for loop then notifies it and marks it sent), and no
\* later iteration notifies a reminder again.
C3_DueProcessedOnce ==
    [][/\ \A t \in ThreadIds : Fetches(t) =>
            \A r \in reminders : ~r.sent /\ r.remind_at <= now =>
                \E i \in 1..Len(threads'[t].due) : threads'[t].due[i].id = r.id
       /\ renotified' = renotified]_vars

\* C4: the sent flag of a reminder changes only from unsent to sent and only in a
\* step of the scheduler loop; no host operation changes it.
C4_SentOnlyByScheduler ==
    [][\A r \in reminders : \A q \in reminders' :
        q.id = r.id /\ q.sent # r.sent => q.sent /\ threads' # threads]_vars

UnsentOf(rems, task_id) == {r \in rems : r.task_id = task_id /\ ~r.sent}
RowsOf(rems, task_id) == {r \in rems : r.task_id = task_id}

\* C5: every task has at most one unsent reminder row, and no step adds a row
\* for a task that has an unsent reminder (setting the due time again rewrites it).
C5_OneUnsentPerTask ==
    /\ [](\A task_id \in 1..MaxTasks : Cardinality(UnsentOf(reminders, task_id)) <= 1)
    /\ [][\A task_id \in 1..MaxTasks : UnsentOf(reminders, task_id) # {} =>
            Cardinality(RowsOf(reminders', task_id)) <= Cardinality(RowsOf(reminders, task_id))]_vars

\* A task's due time was set while its reminder was unsent, and the task still has
\* the one row, with the new time.
C5_Witness ==
    /\ replaced
    /\ \E r \in reminders : r.id = 1 /\ ~r.sent /\ r.remind_at = MaxDue
    /\ Cardinality(RowsOf(reminders, 1)) = 1

\* C6: a thread that has entered the loop ends only when the stop event is set,
\* whatever call of an iteration (lookup, notify, mark-sent, log) raises.
C6_LoopEndsOnlyOnStop ==
    [][\A t \in ThreadIds :
        threads[t].pc \notin {"begin", "dead"} /\ threads'[t].pc = "dead" => stopEvent]_vars

UnsentDue(id) == \E r \in reminders : r.id = id /\ ~r.sent /\ r.remind_at <= now
LoopRunning == LiveLoops # {} /\ ~stopEvent

\* C7: while the loop is running and not stopped, a reminder that is unsent and due
\* does not stay so: it is marked sent (unless the host deletes or postpones it).
C7_DueEventuallySent ==
    \A id \in 1..MaxTasks :
        (UnsentDue(id) /\ LoopRunning) ~> (~UnsentDue(id) \/ ~LoopRunning)

\* The running loop has marked a due reminder sent.
C7_Witness ==
    /\ LoopRunning
    /\ \E r \in reminders : r.sent /\ r.remind_at <= now /\ r.id \in notified

\* Thread t, whose iteration read notifications as disabled, takes a step of its
\* for loop.
SilentStep(t) ==
    threads[t].pc = "for" /\ ~threads[t].do_notify /\ threads'[t] # threads[t]

\* C8: an iteration that read notifications as disabled marks its due reminders
\* sent without invoking the Notifier, and a reminder so marked is not notified
\* by any later iteration.
C8_NoBacklogReplay ==
    [][/\ \A t \in ThreadIds : SilentStep(t) =>
            notified' = notified /\ renotified' = renotified
       /\ \A id \in silenced :
            (id \in notified' => id \in notified) /\ (id \in renotified' => id \in renotified)]_vars

\* C9: start on a running scheduler starts nothing and sets both configuration
\* values to the call's; start with no loop alive leaves exactly one, behind the
\* handle, with the call's configuration.
C9_StartIdempotent ==
    [][\A i \in IntervalArgs, n \in BOOLEAN : StartSchedulerOnce(i, n) =>
        /\ intervalSeconds' = i
        /\ notificationsEnabled' = n
        /\ Running => threads' = threads /\ schedulerThread' = schedulerThread
                      /\ stopEvent' = stopEvent
        /\ LiveLoops = {} => LiveLoops' = {schedulerThread'}]_vars

\* A start call found the only thread ever started alive, and the configuration is
\* the one of that call.
C9_Witness ==
    /\ reconfigured
    /\ Len(threads) = 1 /\ Running
    /\ intervalSeconds = 1 /\ ~notificationsEnabled

\* C10: the wait of every iteration is given max(5, configured poll interval),
\* whatever value start or update_config configured.
C10_PollFloor ==
    /\ [](\A t \in ThreadIds : threads[t].pc = "sleep" => threads[t].timeout >= MinPoll)
    /\ [][\A t \in ThreadIds :
            threads[t].pc = "finally" /\ threads'[t].pc = "sleep" =>
                threads'[t].timeout =
                    (IF intervalSeconds >= MinPoll THEN intervalSeconds ELSE MinPoll)]_vars

\* The loop sleeps for 5 with a poll interval of 1 configured.
C10_Witness ==
    \E t \in ThreadIds :
        threads[t].pc = "sleep" /\ threads[t].timeout = MinPoll /\ intervalSeconds = 1

\* The wait of thread t ends in this step with the stop event clear: its timeout
\* has run out.
TimedOut(t) == threads[t].pc = "sleep" /\ ~stopEvent /\ threads'[t].pc # "sleep"

\* C11: a poll interval shortened by update_config wakes the sleep in progress: no
\* wait runs out a timeout longer than the effective interval configured by then.
C11_ShortenedIntervalWakes ==
    [][\A t \in ThreadIds :
        TimedOut(t) => threads[t].timeout <= Max(MinPoll, intervalSeconds)]_vars

\* C12: stop with no scheduler loop running changes neither the thread handle, the
\* stop event, the poll interval, the notifications flag, the lock nor any thread.
C12_IdleStopNoOp ==
    [][StopScheduler /\ LiveLoops = {} =>
        /\ schedulerThread' = schedulerThread
        /\ stopEvent' = stopEvent
        /\ intervalSeconds' = intervalSeconds
        /\ notificationsEnabled' = notificationsEnabled
        /\ schedulerLock' = schedulerLock
        /\ threads' = threads]_vars

\* stop was called after the only loop ever started had ended, and the handle, the
\* event and the thread are as that loop left them.
C12_Witness ==
    /\ stoppedIdle
    /\ Len(threads) = 1 /\ threads[1].pc = "dead"
    /\ schedulerThread = 1 /\ ~stopEvent /\ schedulerLock = "free"

\* C13: a loop that finds the stop event set at its while test starts no new
\* iteration, and a loop on which stop was called terminates.
C13_StopTerminatesLoop ==
    /\ [][\A t \in ThreadIds :
            threads[t].pc = "top" /\ stopEvent => threads'[t].pc # "fetch"]_vars
    /\ \A t \in 1..MaxThreads :
            (schedulerLock = "stop" /\ schedulerThread = t)
                ~> (t \in ThreadIds /\ threads[t].pc = "dead")

\* The reminder a thread notifies or marks in a step: the head of its list.
Handles(t) == threads[t].pc \in {"for", "mark"} /\ threads'[t] # threads[t]

\* C14: within one iteration reminders are notified and marked sent in ascending
\* remind_at order: the reminder a step handles has no reminder with a strictly
\* earlier remind_at still waiting in the same iteration, and only it turns sent.
C14_OldestDueFirst ==
    [][\A t \in ThreadIds : Handles(t) =>
        /\ \A i \in 1..Len(threads[t].due) :
                threads[t].due[1].remind_at <= threads[t].due[i].remind_at
        /\ notified' \subseteq notified \cup {threads[t].due[1].id}
        /\ \A r \in reminders : \A q \in reminders' :
                q.id = r.id /\ q.sent # r.sent => q.id = threads[t].due[1].id]_vars

\* An iteration has notified and marked the earlier of two due reminders and has
\* the later one still to handle.
C14_Witness ==
    \E t \in ThreadIds :
        /\ threads[t].pc = "for" /\ Len(threads[t].due) = 1 /\ threads[t].do_notify
        /\ threads[t].due[1].id \notin notified
        /\ \E r \in reminders :
              r.sent /\ r.id \in notified /\ r.remind_at < threads[t].due[1].remind_at

\* C15: the lookup of an iteration computed at now returns exactly the reminders
\* with sent = false and remind_at <= now, whatever the offset of local time.
C15_LookupExactlyDue ==
    [][\A t \in ThreadIds : Fetches(t) =>
        {threads'[t].due[i].id : i \in 1..Len(threads'[t].due)}
            = {r.id : r \in {x \in reminders : ~x.sent /\ x.remind_at <= now}}]_vars

\* A row of pomodoro_sessions written for a break.
IsBreak(row) == row.notes # "focus"

\* The break the k-th completed focus interval leads to.
BreakAfter(k) ==
    IF k % pomodoro_config.long_break_interval = 0 THEN "long_break" ELSE "short_break"

\* C16: with long_break_interval held constant and focus intervals completing
\* naturally one after another, the k-th completed focus interval leads to
\* long_break exactly when k is a multiple of the interval and to short_break
\* otherwise, and each completion adds one to both counters.
C16_LongBreakEveryNth ==
    /\ [](LET breaks == SelectSeq(sessions, IsBreak) IN
          /\ \A k \in 1..Len(breaks) : breaks[k].notes = BreakAfter(k)
          /\ pomodoro_state.mode # "focus" =>
                pomodoro_state.mode = BreakAfter(pomodoro_state.total_focus_completed))
    /\ [][pomodoro_state.mode = "focus" /\ pomodoro_state'.mode # "focus" =>
            /\ pomodoro_state'.total_focus_completed = pomodoro_state.total_focus_completed + 1
            /\ pomodoro_state'.cycle_count = pomodoro_state.cycle_count + 1]_vars

\* With an interval of 4 the fourth focus interval has just completed into the
\* long break, after three short breaks.
C16_Witness ==
    /\ pomodoro_config.long_break_interval = 4
    /\ pomodoro_state.total_focus_completed = 4
    /\ pomodoro_state.mode = "long_break"
    /\ LET breaks == SelectSeq(sessions, IsBreak) IN
          Len(breaks) = 3 /\ \A k \in 1..3 : breaks[k].notes = "short_break"

\* This step is a tick that takes time_left_sec to 0 while the timer runs.
NaturalTransition ==
    /\ \E k \in TickerIds : tickers[k] = "tick" /\ tickers'[k] = "wait"
    /\ pomodoro_state.is_running
    /\ pomodoro_state.time_left_sec = 1

\* C17: after a natural transition the timer still runs and the new interval is
\* open as of the transition, so that the next tick takes one second off the new
\* interval with no start call.
C17_TransitionKeepsRunning ==
    [][NaturalTransition =>
        /\ pomodoro_state'.is_running
        /\ pomodoro_state'.elapsed = 0
        /\ pomodoro_state'.time_left_sec >= 1
        /\ TickResult(pomodoro_config, pomodoro_state', sessions').state.time_left_sec
              = pomodoro_state'.time_left_sec - 1]_vars

\* The tick after a natural transition has taken a second off the break.
C17_Witness ==
    /\ pomodoro_state.mode = "short_break"
    /\ pomodoro_state.is_running
    /\ pomodoro_state.elapsed = 1
    /\ pomodoro_state.time_left_sec = pomodoro_config.short_break_minutes * SecondsPerMinute - 1

C20_ResetPostcondition ==
    [][ResetTimer =>
        /\ ~pomodoro_state'.is_running
        /\ pomodoro_state'.elapsed = NoStart
        /\ pomodoro_state'.time_left_sec =
              60 * (CASE pomodoro_state.mode = "focus" -> pomodoro_config.focus_minutes
                      [] pomodoro_state.mode = "short_break" -> pomodoro_config.short_break_minutes
                      [] pomodoro_state.mode = "long_break" -> pomodoro_config.long_break_minutes)
        /\ pomodoro_state'.mode = pomodoro_state.mode
        /\ pomodoro_state'.cycle_count = pomodoro_state.cycle_count
        /\ pomodoro_state'.total_focus_completed = pomodoro_state.total_focus_completed
        /\ pomodoro_state'.bound_task_id = pomodoro_state.bound_task_id]_vars

\* A reset in the long break: stopped, no interval open, the full two minutes left,
\* the counters and the binding kept.
C20_Witness ==
    /\ pomodoro_state.mode = "long_break"
    /\ ~pomodoro_state.is_running
    /\ pomodoro_state.elapsed = NoStart
    /\ pomodoro_state.time_left_sec = 2 * SecondsPerMinute
    /\ pomodoro_state.total_focus_completed = 1
    /\ pomodoro_state.bound_task_id = 1

\* The row reset_timer and switch_mode write for the interval they close: none
\* when no interval is open or fewer than 60 seconds have elapsed.
AbandonedLog(state, log) ==
    IF state.elapsed # NoStart /\ state.elapsed >= 60
    THEN Append(log, [task_id |-> state.bound_task_id,
                      duration_minutes |-> IF state.elapsed \div 60 >= 1
                                           THEN state.elapsed \div 60 ELSE 1,
                      notes |-> state.mode])
    ELSE log

\* C21: switch_mode(m) with m one of the three modes sets the mode to m with the
\* full configured length of m, stops the timer, closes the open interval by the
\* rule of reset (a row only from 60 elapsed seconds on, none otherwise) and leaves
\* both focus counters as they were.
C21_SwitchModePostcondition ==
    [][\A m \in {"focus", "short_break", "long_break"} : SwitchMode(m) =>
        /\ pomodoro_state'.mode = m
        /\ pomodoro_state'.time_left_sec =
              60 * (CASE m = "focus" -> pomodoro_config.focus_minutes
                      [] m = "short_break" -> pomodoro_config.short_break_minutes
                      [] m = "long_break" -> pomodoro_config.long_break_minutes)
        /\ ~pomodoro_state'.is_running
        /\ pomodoro_state'.elapsed = NoStart
        /\ sessions' = AbandonedLog(pomodoro_state, sessions)
        /\ sessions' = ResetResult(pomodoro_config, pomodoro_state, sessions).sessions
        /\ pomodoro_state'.cycle_count = pomodoro_state.cycle_count
        /\ pomodoro_state'.total_focus_completed = pomodoro_state.total_focus_completed]_vars

\* A switch to the long break out of a short break that had been open for a minute:
\* its row is written, the timer is stopped with the full two minutes, no focus
\* interval is counted.
C21_Witness ==
    /\ pomodoro_state.mode = "long_break"
    /\ ~pomodoro_state.is_running
    /\ pomodoro_state.elapsed = NoStart
    /\ pomodoro_state.time_left_sec = 2 * SecondsPerMinute
    /\ pomodoro_state.total_focus_completed = 0
    /\ sessions = <<[task_id |-> NoTask, duration_minutes |-> 1, notes |-> "short_break"]>>

\* C22: switch_mode with a value that is none of the three modes changes nothing
\* of the timer state (mode, time left, running, counters, open interval, task
\* binding), writes no row and returns normally.
C22_InvalidModeIgnored ==
    [][\A m \in SwitchArgs \ {"focus", "short_break", "long_break"} : SwitchMode(m) =>
        /\ pomodoro_state' = pomodoro_state
        /\ pomodoro_config' = pomodoro_config
        /\ sessions' = sessions]_vars

\* A call with an invalid mode has returned on a timer that runs a minute into its
\* interval, where a valid mode would have stopped it and written a row.
C22_Witness ==
    /\ modeRejected
    /\ pomodoro_state.is_running
    /\ pomodoro_state.elapsed = 60
    /\ sessions = <<>>

\* C23: apply_config on a timer that does not run sets time_left_sec to the new
\* length of the current mode, on a running timer it leaves time_left_sec alone;
\* either way the mode, both counters and the open interval stay as they were.
C23_ConfigResetsIdleOnly ==
    [][\A focus \in FocusArgs, short \in BreakArgs, long \in BreakArgs,
          interval \in LongIntervalArgs : ApplyConfig(focus, short, long, interval) =>
        /\ pomodoro_state'.time_left_sec =
              IF pomodoro_state.is_running
              THEN pomodoro_state.time_left_sec
              ELSE 60 * (CASE pomodoro_state.mode = "focus" -> pomodoro_config'.focus_minutes
                           [] pomodoro_state.mode = "short_break" ->
                                 pomodoro_config'.short_break_minutes
                           [] pomodoro_state.mode = "long_break" ->
                                 pomodoro_config'.long_break_minutes)
        /\ pomodoro_state'.mode = pomodoro_state.mode
        /\ pomodoro_state'.cycle_count = pomodoro_state.cycle_count
        /\ pomodoro_state'.total_focus_completed = pomodoro_state.total_focus_completed
        /\ pomodoro_state'.elapsed = pomodoro_state.elapsed
        /\ pomodoro_state'.is_running = pomodoro_state.is_running]_vars

\* The focus length was set to two minutes while the timer ran: half a minute is
\* left of the one-minute interval it was started with.
C23_Witness ==
    /\ pomodoro_config.focus_minutes = 2
    /\ pomodoro_state.mode = "focus"
    /\ pomodoro_state.total_focus_completed = 0
    /\ pomodoro_state.is_running
    /\ pomodoro_state.time_left_sec = 30
    /\ pomodoro_state.elapsed = 29

\* C24: whatever integers apply_config is called with, zero and negative ones
\* included, the three lengths and the long-break interval of the configuration
\* are at least 1.
C24_ConfigAtLeastOne ==
    /\ pomodoro_config.focus_minutes >= 1
    /\ pomodoro_config.short_break_minutes >= 1
    /\ pomodoro_config.long_break_minutes >= 1
    /\ pomodoro_config.long_break_interval >= 1

\* apply_config(2, -1, -1, 0) has been called: the breaks and the interval are 1.
C24_Witness == pomodoro_config = PomodoroConfig(2, 1, 1, 1)

\* This step is one call of _tick_once.
TickStep == \E k \in TickerIds : tickers[k] = "tick" /\ tickers'[k] = "wait"

\* C25: a tick changes nothing of the timer state when the timer does not run; a
\* tick of a running timer with time_left_sec > 0 takes exactly one second off
\* (and, when that second was the last one, goes on to the transition); and
\* time_left_sec is never negative.
C25_TickDecrementsByOne ==
    /\ [](pomodoro_state.time_left_sec >= 0)
    /\ [][TickStep =>
            /\ ~pomodoro_state.is_running =>
                  /\ pomodoro_state' = pomodoro_state
                  /\ sessions' = sessions
                  /\ pomodoro_config' = pomodoro_config
            /\ pomodoro_state.is_running /\ pomodoro_state.time_left_sec > 1 =>
                  /\ pomodoro_state' = [pomodoro_state EXCEPT
                                          !.time_left_sec = pomodoro_state.time_left_sec - 1]
                  /\ sessions' = sessions
            /\ pomodoro_state.is_running /\ pomodoro_state.time_left_sec = 1 =>
                  /\ pomodoro_state'.mode # pomodoro_state.mode
                  /\ pomodoro_state'.time_left_sec >= 1]_vars

\* Two ticks of a running timer have taken two seconds off the focus minute, and
\* the tick after the pause has taken none.
C25_Witness ==
    /\ ~pomodoro_state.is_running
    /\ pomodoro_state.mode = "focus"
    /\ pomodoro_state.time_left_sec = SecondsPerMinute - 2
    /\ pomodoro_state.elapsed = 3
    /\ \E k \in TickerIds : tickers[k] = "wait"
    /\ sessions = <<>>

\* C26: pause sets is_running to false and changes nothing else (time left, mode,
\* counters, task binding, start of the interval); ticks of the paused timer leave
\* the time left alone, and a later start runs the timer again with the same time
\* left in the same open interval.
C26_PauseResumes ==
    /\ [][PauseTimer =>
            /\ ~pomodoro_state'.is_running
            /\ pomodoro_state'.time_left_sec = pomodoro_state.time_left_sec
            /\ pomodoro_state'.mode = pomodoro_state.mode
            /\ pomodoro_state'.cycle_count = pomodoro_state.cycle_count
            /\ pomodoro_state'.total_focus_completed = pomodoro_state.total_focus_completed
            /\ pomodoro_state'.bound_task_id = pomodoro_state.bound_task_id
            /\ pomodoro_state'.elapsed = pomodoro_state.elapsed
            /\ sessions' = sessions]_vars
    /\ [][~pomodoro_state.is_running /\ (TickStep \/ TickerWait) =>
            pomodoro_state'.time_left_sec = pomodoro_state.time_left_sec]_vars
    /\ [][\A task_id \in {NoTask, 1, NonNumeric} :
            (~pomodoro_state.is_running /\ pomodoro_state.elapsed # NoStart
             /\ StartTimer(task_id)) =>
                /\ pomodoro_state'.is_running
                /\ pomodoro_state'.time_left_sec = pomodoro_state.time_left_sec
                /\ pomodoro_state'.elapsed = pomodoro_state.elapsed
                /\ pomodoro_state'.mode = pomodoro_state.mode]_vars

\* The timer runs again after a pause: five seconds into the interval only two
\* have been taken off.
C26_Witness ==
    /\ pomodoro_state.is_running
    /\ pomodoro_state.mode = "focus"
    /\ pomodoro_state.total_focus_completed = 0
    /\ pomodoro_state.elapsed = 5
    /\ pomodoro_state.time_left_sec = SecondsPerMinute - 2

\* C27: in whatever state start is called (idle, paused or already running),
\* start(task_id) with a numeric id leaves the timer bound to that id, and start
\* with an id that is not a number returns normally and sets no binding.
C27_StartBindsTask ==
    /\ StartState(pomodoro_state, 1).bound_task_id = 1
    /\ StartState(pomodoro_state, NonNumeric).bound_task_id
          \in {NoTask, pomodoro_state.bound_task_id}

\* C28: the session log is append-only and every row has duration_minutes >= 1:
\* no operation of the timer (tick, start, pause, reset, switch_mode, apply_config)
\* changes or removes a row, and reset and switch_mode write no row for an interval
\* they close before 60 seconds have elapsed.
C28_LogAppendOnly ==
    /\ [](\A i \in 1..Len(sessions) : sessions[i].duration_minutes >= 1)
    /\ [][/\ Len(sessions') >= Len(sessions)
          /\ Len(sessions') <= Len(sessions) + 1
          /\ \A i \in 1..Len(sessions) : sessions'[i] = sessions[i]]_vars
    /\ [][(/\ pomodoro_state.elapsed < 60
           /\ ResetTimer \/ \E m \in {"focus", "short_break", "long_break"} : SwitchMode(m))
          => sessions' = sessions]_vars

\* The row of the completed focus interval is still there, unchanged, after the
\* long break that followed was abandoned a minute in and its row was appended.
C28_Witness ==
    /\ Len(sessions) = 2
    /\ sessions[1] = [task_id |-> NoTask, duration_minutes |-> 1, notes |-> "focus"]
    /\ sessions[2] = [task_id |-> NoTask, duration_minutes |-> 1, notes |-> "long_break"]
    /\ pomodoro_state.total_focus_completed = 1
    /\ pomodoro_state.elapsed = NoStart

\* Ticker k is inside _tick_once, past its reading of is_running.
InTick(k) == tickers[k] \in {"decrement", "complete", "transition", "clock"}

\* C29: no call of _tick_once interleaves with a host operation on the same state:
\* a tick that has read is_running = true decrements time_left_sec, writes the row
\* and performs the transition only on a timer that still runs, never after a
\* pause or reset has completed in between.
C29_TickNeverInterleaves ==
    [][\A k \in TickerIds :
          InTick(k) /\ tickers'[k] # tickers[k] => pomodoro_state.is_running]_vars

\* C30: after any sequence of start_timer, start_ticker_once and stop_ticker calls
\* at most one ticker loop is running, also when stop_ticker's join timed out
\* before the loop had exited and the ticker was started again: two threads are
\* alive only while the stop event tells the older one to exit.
C30_AtMostOneTicker == tickerStop \/ Cardinality(LiveTickers) <= 1

\* C31: the timer has no terminal state.  While it runs and ticks keep arriving,
\* every interval ends in a transition after finitely many ticks (a focus interval
\* in the count of one more completed focus, a break in focus), a break is left
\* for focus only, and focus comes back again and again, up to the MaxFocus focus
\* intervals followed here.
C31_NoTerminalState ==
    /\ \A n \in 0..(MaxFocus - 1) :
          (pomodoro_state.is_running /\ pomodoro_state.mode = "focus"
           /\ pomodoro_state.total_focus_completed = n)
             ~> (pomodoro_state.mode # "focus" /\ pomodoro_state.total_focus_completed = n + 1)
    /\ \A n \in 0..(MaxFocus - 1) :
          (pomodoro_state.is_running /\ pomodoro_state.mode # "focus"
           /\ pomodoro_state.total_focus_completed = n)
             ~> (pomodoro_state.mode = "focus" /\ pomodoro_state.total_focus_completed = n)
    /\ [][pomodoro_state.mode # "focus" /\ pomodoro_state'.mode # pomodoro_state.mode
            => pomodoro_state'.mode = "focus"]_vars
    /\ pomodoro_state.is_running ~> (pomodoro_state.total_focus_completed = MaxFocus)

\* Focus has come back for the fourth time, after two short breaks and a long one.
C31_Witness ==
    /\ pomodoro_config.long_break_interval = 3
    /\ pomodoro_state.is_running
    /\ pomodoro_state.mode = "focus"
    /\ pomodoro_state.total_focus_completed = 3
    /\ Len(sessions) = 6
    /\ sessions[6].notes = "long_break"

\* C32: start on a timer that does not run sets is_running and opens a new
\* interval at now only when none is open, so that a paused timer resumes in the
\* interval it was paused in; start on a running timer changes neither is_running
\* nor the time left nor the start of the interval.
C32_StartOpensOrResumes ==
    \A task_id \in {NoTask, 1, NonNumeric} :
        LET after == StartState(pomodoro_state, task_id) IN
        /\ after.is_running
        /\ after.time_left_sec = pomodoro_state.time_left_sec
        /\ after.elapsed = IF ~pomodoro_state.is_running /\ pomodoro_state.elapsed = NoStart
                           THEN 0 ELSE pomodoro_state.elapsed
        /\ after.mode = pomodoro_state.mode

\* A reset timer has been started again: it runs a new interval opened at the
\* start, after the row of the interval before.
C32_Witness ==
    /\ pomodoro_state.is_running
    /\ pomodoro_state.elapsed = 0
    /\ pomodoro_state.time_left_sec = SecondsPerMinute
    /\ pomodoro_state.mode = "focus"
    /\ Len(sessions) = 1
    /\ \E k \in TickerIds : tickers[k] = "wait"

\* C34: a reminder is marked sent only with the remind_at it had in the lookup of
\* the iteration that marks it: a reminder that update_task moves to a later time
\* between the lookup and mark_reminder_sent is not marked, stays unsent and is
\* notified at its new time.
C34_MarkedAsFetched ==
    [][\A r \in reminders' :
          (r.sent /\ r \notin reminders) =>
             \E t \in ThreadIds :
                /\ threads[t].due # <<>>
                /\ Head(threads[t].due) = [id |-> r.id, remind_at |-> r.remind_at]]_vars

\* C38: update_task with no due time leaves the reminders of the task as they
\* are (same remind_at, same sent flag, no row added or removed), so that an
\* unsent reminder of the task is looked up by the scheduler as before.
C38_ClearedDueKeepsReminder ==
    \A task_id \in tasks :
        LET up == UpsertInitialReminder(reminders, nextReminderId, task_id, NoDue) IN
        /\ up.reminders = reminders
        /\ up.nextId = nextReminderId
        /\ \A t \in 0..MaxTime :
              GetDueUnsentReminders(up.reminders, t) = GetDueUnsentReminders(reminders, t)

\* A task has an unsent reminder that the lookup returns now: update_task with no
\* due time keeps the row, and the loop has fetched it for this iteration.
C38_Witness ==
    \E task_id \in tasks, r \in reminders, t \in ThreadIds :
        /\ r.task_id = task_id /\ ~r.sent
        /\ r \in DueRows(UpsertInitialReminder(reminders, nextReminderId, task_id,
                                               NoDue).reminders, now)
        /\ threads[t].pc = "for"
        /\ Head(threads[t].due).id = r.id

\* C35, as stated: in every reachable state of the timer a running timer has an
\* open interval, and reset_timer and switch_mode, whatever the argument, leave
\* the timer stopped with no open interval.
C35_ResetAndAnySwitchStop ==
    /\ pomodoro_state.is_running => pomodoro_state.elapsed # NoStart
    /\ LET r == ResetResult(pomodoro_config, pomodoro_state, sessions) IN
          ~r.state.is_running /\ r.state.elapsed = NoStart
    /\ \A new_mode \in SwitchArgs :
          LET r == SwitchResult(pomodoro_config, pomodoro_state, sessions, new_mode) IN
          ~r.state.is_running /\ r.state.elapsed = NoStart

\* C35: in every reachable state of the timer a running timer has an open
\* interval; reset_timer, and switch_mode with one of the three modes, leave the
\* timer stopped with no open interval; switch_mode with any other value leaves
\* a running timer running with its interval open.
C35_RunningHasInterval ==
    /\ pomodoro_state.is_running => pomodoro_state.elapsed # NoStart
    /\ LET r == ResetResult(pomodoro_config, pomodoro_state, sessions) IN
          ~r.state.is_running /\ r.state.elapsed = NoStart
    /\ \A new_mode \in SwitchArgs :
          LET r == SwitchResult(pomodoro_config, pomodoro_state, sessions, new_mode) IN
          IF new_mode \in {"focus", "short_break", "long_break"}
          THEN ~r.state.is_running /\ r.state.elapsed = NoStart
          ELSE /\ r.state.is_running = pomodoro_state.is_running
               /\ r.state.elapsed = pomodoro_state.elapsed

\* A timer that runs half a minute into a short break: reset_timer and a switch
\* to any of the three modes drop the interval without a row, a switch to
\* another value leaves it running.
C35_Witness ==
    /\ pomodoro_state.is_running
    /\ pomodoro_state.mode = "short_break"
    /\ pomodoro_state.elapsed = 30
    /\ pomodoro_state.time_left_sec = 30
    /\ modeRejected

C37_TimeLeftPositive ==
    /\ [](pomodoro_state.time_left_sec >= 1)
    /\ [][NaturalTransition =>
             /\ pomodoro_state'.is_running
             /\ pomodoro_state'.mode # pomodoro_state.mode
             /\ pomodoro_state'.time_left_sec >= SecondsPerMinute
             /\ pomodoro_state'.elapsed = 0]_vars

\* A focus interval has just run out: the timer runs the long break with its
\* full two minutes and a new interval open.
C37_Witness ==
    /\ pomodoro_state.is_running
    /\ pomodoro_state.mode = "long_break"
    /\ pomodoro_state.time_left_sec = 2 * SecondsPerMinute
    /\ pomodoro_state.elapsed = 0
    /\ pomodoro_state.total_focus_completed = 1
    /\ Len(sessions) = 1

\* A host thread is inside update_scheduler_config called on its own.
InUpdate(c) == callers[c].pc \in {"config_lock", "config_write"} /\ ~callers[c].nested

\* C33: update_scheduler_config called on its own never takes _scheduler_lock:
\* its steps leave the lock as it is and wait for _config_lock only, so that it
\* goes through while stop_scheduler holds _scheduler_lock in its join; and the
\* loop reads the configuration (lines 29-30 and 44) holding _config_lock.
C33_UpdateIgnoresStartStopLock ==
    /\ [](\A c \in Callers :
            /\ InUpdate(c) /\ callers[c].pc = "config_lock" /\ configLock = NoHolder
                  => ENABLED UpdateSchedulerConfigLocked(c)
            /\ InUpdate(c) /\ callers[c].pc = "config_write"
                  => configLock = c /\ ENABLED UpdateSchedulerConfigWrite(c))
    /\ [][\A c \in Callers : InUpdate(c) /\ callers'[c] # callers[c]
                                => schedulerLock' = schedulerLock]_vars
    /\ [][\A t \in ThreadIds :
            threads[t].pc \in {"config", "finally"} /\ threads'[t].pc # threads[t].pc
                => configLock = LoopHolder(t) /\ configLock' = NoHolder]_vars

\* stop_scheduler waits in its join holding _scheduler_lock, and the other host
\* thread's update_scheduler_config, which took _config_lock during that wait,
\* has returned with the new configuration in place.
C33_Witness ==
    \E c \in Callers, d \in Callers :
        /\ callers[d].pc = "join"
        /\ schedulerLock = "stop"
        /\ callers[c].pc = "idle"
        /\ callers[c].duringStop
        /\ intervalSeconds = 1
        /\ ~notificationsEnabled

\* Thread t of _loop waits for _config_lock, which another thread holds.
LoopWaitsForConfig(t) ==
    threads[t].pc \in {"config", "finally"} /\ configLock \notin {NoHolder, LoopHolder(t)}

\* The host thread that holds _scheduler_lock.
SchedulerLockHolders ==
    {c \in Callers : \/ callers[c].pc \in {"spawn", "join"}
                     \/ callers[c].nested /\ callers[c].pc \in {"config_lock", "config_write"}}

\* C39: no state of start_scheduler_once, update_scheduler_config, stop_scheduler
\* and _loop is a deadlock.  The holder of _config_lock waits for nothing: a host
\* thread holding it is at the assignments, a loop thread at its reads, and its
\* next step is enabled.  The holder of _scheduler_lock can take a step, or waits
\* for _config_lock only, or waits in join for a thread that can take a step or
\* itself waits for _config_lock only.  No thread that waits for _scheduler_lock
\* holds _config_lock, and the loop threads never hold _scheduler_lock.
C39_NoDeadlock ==
    /\ \A c \in Callers :
          configLock = c =>
              callers[c].pc = "config_write" /\ ENABLED UpdateSchedulerConfigWrite(c)
    /\ \A t \in ThreadIds :
          configLock = LoopHolder(t) =>
              /\ threads[t].pc \in {"config", "finally"}
              /\ ENABLED (LoopConfigLocked(t) \/ LoopFinallyLocked(t))
    /\ configLock \in {NoHolder} \cup Callers \cup {LoopHolder(t) : t \in ThreadIds}
    /\ \A c \in Callers :
          callers[c].pc \in {"start_lock", "stop_lock"} => configLock # c
    /\ schedulerLock = "free" <=> SchedulerLockHolders = {}
    /\ Cardinality(SchedulerLockHolders) <= 1
    /\ \A c \in SchedulerLockHolders :
          \/ ENABLED CallerStep(c)
          \/ callers[c].pc = "config_lock" /\ configLock # NoHolder
          \/ /\ callers[c].pc = "join"
             /\ IsAlive(schedulerThread)
             /\ \/ ENABLED LockLoopStep(schedulerThread)
                \/ LoopWaitsForConfig(schedulerThread)
    /\ \A c \in Callers :
          callers[c].pc \in {"start_lock", "stop_lock"} /\ schedulerLock = "free"
              => ENABLED CallerStep(c)
    /\ \A t \in LiveLoops : ENABLED LockLoopStep(t) \/ LoopWaitsForConfig(t)

\* start_scheduler_once holds _scheduler_lock and waits for _config_lock, which
\* the other host thread's update_scheduler_config holds, while the loop thread
\* waits for _config_lock as well.
C39_Witness ==
    \E c \in Callers, d \in Callers, t \in ThreadIds :
        /\ callers[c].pc = "config_lock" /\ callers[c].nested
        /\ schedulerLock = "start"
        /\ callers[d].pc = "config_write" /\ configLock = d
        /\ threads[t].pc = "finally"

====
